---- MODULE Spec2Model ----
(***************************************************************************)
(* Task Advancement Workflow of the Jira automation tool                   *)
(* (services/task_processor.py driving services/jira_client.py).           *)
(*                                                                         *)
(* The tracker is the only store: every sub-task has a status, an          *)
(* assignee and a list of worklogs.  One invocation of                     *)
(* process_story_subtasks is a sequence of remote calls; each action below *)
(* is one remote call together with the local code that follows it up to   *)
(* the next remote call.  Any remote call can be rejected by the tracker   *)
(* (JIRAError) or fail in another way (for example in the transport).      *)
(*                                                                         *)
(* The Sub-task Creation Workflow (services/subtask_creator.py) and the    *)
(* request handlers (app.py, config.py) follow the same conventions; each  *)
(* has a specification of its own (SpecCreate, SpecApi).  SpecInvocation   *)
(* is one invocation of either workflow, SpecDirect the methods called on  *)
(* their own (Config.validate, JiraClient.transition_issue,                *)
(* TaskProcessor._has_worklog_by_user), and SpecOverlap two invocations of *)
(* process_story_subtasks in two request threads that interleave between   *)
(* their remote calls.                                                     *)
(***************************************************************************)
EXTENDS Integers, Sequences, FiniteSets, TLC

\* ------------------------------------------------------------------ bounds
MaxSubtasks == 2       \* sub-tasks under the parent story
MaxFaults == 1         \* remote calls that fail within one invocation
MaxTransitions == 2    \* transitions the tracker lists for one issue
MaxCreateFaults == 2   \* remote calls that fail within one create invocation

\* ------------------------------------------------------------- vocabulary
None == "None"
NoAttr == "<no attribute>"

Open == "Open"
InProgress == "In Progress."
Completed == "Completed"
Unrecognized == "In Progress"
Statuses == {Open, InProgress, Completed, Unrecognized}

\* User resources of the tracker.  The tool authenticates with a personal
\* access token against a Jira Server instance, whose user resources carry
\* both a name and a key.
NoUser == [name |-> None, key |-> None]     \* fields.assignee of an unassigned issue
Me == [name |-> "testuser", key |-> "JIRAUSER1"]
Other == [name |-> "otheruser", key |-> "JIRAUSER2"]

Worklog(author, spent) == [author |-> author, timeSpent |-> spent]

\* The workflow's transitions by identifier: the status each one leads to.
TransitionTable == <<InProgress, Completed, Open, Completed>>
TransitionIds == DOMAIN TransitionTable
Transition(id) == [id |-> id, to |-> [name |-> TransitionTable[id]]]

RECURSIVE SeqsUpTo(_, _)
SeqsUpTo(S, n) ==
    IF n = 0 THEN {<<>>}
    ELSE LET shorter == SeqsUpTo(S, n - 1)
         IN shorter \cup {Append(s, x) : s \in {t \in shorter : Len(t) = n - 1}, x \in S}

Range(s) == {s[i] : i \in DOMAIN s}

\* What jira.transitions(issue) may answer: any list of distinct transitions.
TransitionLists ==
    {[i \in DOMAIN s |-> Transition(s[i])] :
        s \in {t \in SeqsUpTo(TransitionIds, MaxTransitions) : Cardinality(Range(t)) = Len(t)}}

\* Failures of a remote call.
JIRAError(code, text) == [kind |-> "JIRAError", status_code |-> code, text |-> text]
TransportError == [kind |-> "ConnectionError", status_code |-> None, text |-> "connection reset"]
Exceptions == {JIRAError("400", "Bad Request"), TransportError}

\* The sub-tasks the tracker may hold when an invocation starts.
IssueStates ==
    {[status |-> Open, assignee |-> Me, worklogs |-> <<>>],
     [status |-> InProgress, assignee |-> Me, worklogs |-> <<Worklog(Other, "1h")>>],
     [status |-> InProgress, assignee |-> Me,
      worklogs |-> <<Worklog(Other, "1h"), Worklog(Me, "3h")>>],
     [status |-> Completed, assignee |-> Me, worklogs |-> <<>>],
     [status |-> Unrecognized, assignee |-> Me, worklogs |-> <<>>],
     [status |-> Open, assignee |-> NoUser, worklogs |-> <<>>],
     [status |-> InProgress, assignee |-> Other, worklogs |-> <<Worklog(Other, "1h")>>]}

VARIABLES
    tracker,          \* key -> [status, assignee, worklogs]: the issues at the tracker
    parentSubtasks,   \* parent.fields.subtasks: keys of the parent's sub-tasks, in order
    pc,               \* position of the invocation: the remote call it makes next
    username,         \* process_story_subtasks: username
    subtasks,         \* process_story_subtasks: subtasks
    idx,              \* position of the for loop in subtasks
    results,          \* process_story_subtasks: results
    processed_count,  \* process_story_subtasks: processed_count
    skipped_count,    \* process_story_subtasks: skipped_count
    summary,          \* process_story_subtasks: summary (None until the return)
    subtask,          \* _process_single_subtask: subtask (the issue as last fetched)
    current_status,   \* _process_single_subtask: current_status
    assignee,         \* _process_single_subtask: assignee
    actions,          \* _process_single_subtask: actions
    chosen,           \* transition_issue: the id of the transition it found
    raised,           \* the exception that left process_story_subtasks, or None
    calls,            \* history: the remote calls of this invocation, in order
    faults,           \* history: the remote calls of this invocation that failed
    status0,          \* history: the statuses at the tracker when the invocation started
    statusInit,       \* history: the statuses at the tracker before the first invocation
    prevRan           \* history: an earlier invocation has run

VARIABLES
    issue_types,            \* _get_subtask_issue_type_id: issue_types
    subtask_issue_type_id,  \* create_subtasks: subtask_issue_type_id
    project,                \* create_subtasks: project
    created,                \* create_subtasks: created
    failed_count,           \* create_subtasks: failed_count
    template,               \* position of the for loop in SUBTASK_TEMPLATES
    new_issue,              \* _create_single_subtask: issue
    summary_stats           \* create_subtasks: summary_stats (None until the return)

VARIABLES
    request,      \* the request being handled: its route, its JSON body, and the
                  \* value of Config.JIRA_PAT while it is handled
    handler_pc,   \* position of the request handler
    client,       \* the JiraClient the handler constructed
    response      \* the response of the handler: HTTP status and JSON body

VARIABLES
    other,        \* the locals of a second invocation of process_story_subtasks,
                  \* in another request thread, while that thread is not running
    invoked       \* a method called on its own, as the unit tests call it: its
                  \* name, its arguments, what its collaborator answered, and
                  \* what it returned

creatorVars == <<issue_types, subtask_issue_type_id, project, created, failed_count,
                 template, new_issue, summary_stats>>
appVars == <<request, handler_pc, client, response>>
directVars == <<other, invoked>>

vars == <<tracker, parentSubtasks, pc, username, subtasks, idx, results,
          processed_count, skipped_count, summary, subtask, current_status,
          assignee, actions, chosen, raised, calls, faults, status0,
          statusInit, prevRan, creatorVars, appVars, directVars>>

\* The variables of process_story_subtasks alone; pc, username, raised, calls
\* and faults belong to whichever workflow is running.
processorVars == <<tracker, parentSubtasks, subtasks, idx, results, processed_count,
                   skipped_count, summary, subtask, current_status, assignee, actions,
                   chosen, status0, statusInit, prevRan>>

loopVars == <<results, processed_count, skipped_count, idx>>
itemVars == <<subtask, current_status, assignee, actions, chosen>>

constVars == <<parentSubtasks, username, subtasks, summary, status0, statusInit, prevRan>>

\* The parent story whose sub-tasks are advanced; sub-tasks have keys 1, 2, ...
StoryKey == 0
NoIssue == [key |-> StoryKey, fields |-> [status |-> [name |-> None], assignee |-> NoUser]]
NoException == [kind |-> None, status_code |-> None, text |-> None]
NoSummary == [total |-> -1, processed |-> -1, skipped |-> -1]

\* ------------------------------------------------------- the remote access
\* jira.issue(key): a request-scoped copy of the issue as the tracker holds it.
Issue(key) ==
    [key |-> key,
     fields |-> [status |-> [name |-> tracker[key].status],
                 assignee |-> tracker[key].assignee]]

\* get_current_user: myself.get('name') or myself.get('key')
CurrentUser(myself) ==
    [username |-> IF myself.name \notin {NoAttr, ""} THEN myself.name ELSE myself.key]

\* Mutation: transition_issue takes the first listed transition, whatever its target.
FirstTransitionTo_AnyTarget(transitions, transition_name) ==
    IF transitions = <<>> THEN <<>> ELSE <<Head(transitions).id>>

\* Mutation: transition_issue takes the last listed transition to the status.
RECURSIVE FirstTransitionTo_Last(_, _)
FirstTransitionTo_Last(transitions, transition_name) ==
    IF transitions = <<>> THEN <<>>
    ELSE IF FirstTransitionTo_Last(Tail(transitions), transition_name) # <<>>
    THEN FirstTransitionTo_Last(Tail(transitions), transition_name)
    ELSE IF Head(transitions).to.name = transition_name THEN <<Head(transitions).id>>
    ELSE <<>>

\* transition_issue: the id of the first listed transition whose target has the
\* name, as a one-element sequence; the empty sequence when none is listed.
RECURSIVE FirstTransitionTo(_, _)
FirstTransitionTo(transitions, transition_name) ==
    IF transitions = <<>> THEN <<>>
    ELSE IF Head(transitions).to.name = transition_name THEN <<Head(transitions).id>>
    ELSE FirstTransitionTo(Tail(transitions), transition_name)

\* ------------------------------------------------- task_processor helpers
HasAttrName(user) == user.name # NoAttr

\* Mutation: the ownership filter keeps the sub-tasks of everybody else.
ShouldProcessSubtask_Inverted(issue, current_username) ==
    LET a == issue.fields.assignee
    IN IF a = NoUser THEN FALSE
       ELSE (IF HasAttrName(a) THEN a.name ELSE a.key) # current_username

ShouldProcessSubtask(issue, current_username) ==
    LET a == issue.fields.assignee
    IN IF a = NoUser THEN FALSE
       ELSE (IF HasAttrName(a) THEN a.name ELSE a.key) = current_username

\* Mutation: _has_worklog_by_user looks at the first worklog only.
HasWorklogByUser_FirstOnly(worklogs, user) ==
    /\ worklogs # <<>>
    /\ (IF HasAttrName(Head(worklogs).author) THEN Head(worklogs).author.name
        ELSE Head(worklogs).author.key) = user

\* Mutation: _has_worklog_by_user never finds a worklog.
HasWorklogByUser_Never(worklogs, user) == FALSE

\* Mutation: _has_worklog_by_user compares the author's key with the username.
HasWorklogByUser_ByKey(worklogs, user) ==
    \E i \in DOMAIN worklogs : worklogs[i].author.key = user

\* The loop of _has_worklog_by_user over the worklogs the tracker listed.
RECURSIVE HasWorklogByUser(_, _)
HasWorklogByUser(worklogs, user) ==
    IF worklogs = <<>> THEN FALSE
    ELSE LET author == Head(worklogs).author
             worklog_author == IF HasAttrName(author) THEN author.name ELSE author.key
         IN IF worklog_author = user THEN TRUE
            ELSE HasWorklogByUser(Tail(worklogs), user)

\* issue.fields.assignee.name if issue.fields.assignee else None
AssigneeName(issue) ==
    IF issue.fields.assignee # NoUser THEN issue.fields.assignee.name ELSE None

Message(format, argument) == [format |-> format, argument |-> argument]

ItemResult(issue, status_name, acts, outcome, message, assignee_name) ==
    [subtask_key |-> issue.key,
     current_status |-> status_name,
     actions |-> acts,
     status |-> outcome,
     message |-> message,
     assignee |-> assignee_name]

NotAssignedResult(issue) ==
    ItemResult(issue, issue.fields.status.name, <<>>, "skipped",
               Message("Not assigned to me (assignee=%s)", AssigneeName(issue)),
               AssigneeName(issue))

\* Mutation: the Completed short-circuit reports success.
AlreadyCompletedResult_AsSuccess(issue, status_name, acts, assignee_name) ==
    ItemResult(issue, status_name, acts, "success",
               Message("Processed successfully", None), assignee_name)

AlreadyCompletedResult(issue, status_name, acts, assignee_name) ==
    ItemResult(issue, status_name, acts, "skipped",
               Message("Already Completed", None), assignee_name)

\* Mutation: a pass that does not end in Completed is reported as partial.
SuccessResult_PartialUnlessCompleted(issue, status_name, acts, assignee_name) ==
    ItemResult(issue, status_name, acts,
               IF "Moved to Completed" \in Range(acts) THEN "success" ELSE "partial",
               Message("Processed successfully", None), assignee_name)

SuccessResult(issue, status_name, acts, assignee_name) ==
    ItemResult(issue, status_name, acts, "success",
               Message("Processed successfully", None), assignee_name)

\* Mutation: the error result forgets the actions already taken.
ErrorResult_NoActions(issue, status_name, acts, assignee_name, e) ==
    ItemResult(issue, status_name, <<>>, "error",
               Message("Error: %s", e.text), assignee_name)

ErrorResult(issue, status_name, acts, assignee_name, e) ==
    ItemResult(issue, status_name, acts, "error",
               Message("Error: %s", e.text), assignee_name)

\* ----------------------------------------------------------- control flow
\* id: the transition a transition_issue call executes (0 for every other call).
CallRecord(op, key, id, e) ==
    [op |-> op, key |-> key, id |-> id, ok |-> (e = NoException), error |-> e]

\* A remote call made now succeeds ...
Succeeds(op, key, id) ==
    /\ calls' = Append(calls, CallRecord(op, key, id, NoException))
    /\ faults' = faults

\* jira.transitions(issue) answers with the list transitions.
\* want, offered: the target status the caller looks for, and whether the
\* answer holds a transition to it.
Lists(key, transitions, transition_name) ==
    /\ calls' = Append(calls,
                       [op |-> "transitions", key |-> key, id |-> 0, ok |-> TRUE,
                        error |-> NoException,
                        want |-> transition_name,
                        offered |-> \E t \in Range(transitions) :
                                       t.to.name = transition_name])
    /\ faults' = faults

\* ... or fails with e.
Fails(op, key, id, e) ==
    /\ faults < MaxFaults
    /\ calls' = Append(calls, CallRecord(op, key, id, e))
    /\ faults' = faults + 1

Goto(position) ==
    /\ pc' = position
    /\ raised' = raised

\* An exception leaves process_story_subtasks.
Propagate(e) ==
    /\ pc' = "raised"
    /\ raised' = e

\* Mutation: the newest result is put in front of the list.
AppendResult_Prepend(result) ==
    /\ results' = <<result>> \o results
    /\ IF result.status = "success"
       THEN processed_count' = processed_count + 1 /\ skipped_count' = skipped_count
       ELSE skipped_count' = skipped_count + 1 /\ processed_count' = processed_count
    /\ idx' = idx + 1
    /\ Goto("loop")

\* Mutation: only skipped results count as skipped, error results are not counted.
AppendResult_ErrorUncounted(result) ==
    /\ results' = Append(results, result)
    /\ processed_count' = processed_count + (IF result.status = "success" THEN 1 ELSE 0)
    /\ skipped_count' = skipped_count + (IF result.status = "skipped" THEN 1 ELSE 0)
    /\ idx' = idx + 1
    /\ Goto("loop")

\* process_story_subtasks, lines 66-69 and 73-78: append the item's result,
\* count it, and go on with the next sub-task.
AppendResult(result) ==
    /\ results' = Append(results, result)
    /\ IF result.status = "success"
       THEN processed_count' = processed_count + 1 /\ skipped_count' = skipped_count
       ELSE skipped_count' = skipped_count + 1 /\ processed_count' = processed_count
    /\ idx' = idx + 1
    /\ Goto("loop")

\* Mutation: after a JIRAError the sub-task is taken up again.
Except_Retry(e, issue, status_name, acts, assignee_name) ==
    IF e.kind = "JIRAError"
    THEN Goto("loop") /\ UNCHANGED loopVars
    ELSE Propagate(e) /\ UNCHANGED loopVars

\* _process_single_subtask, lines 163-172: only JIRAError is caught inside
\* the item; any other exception leaves the method and its caller.
Except(e, issue, status_name, acts, assignee_name) ==
    IF e.kind = "JIRAError"
    THEN AppendResult(ErrorResult(issue, status_name, acts, assignee_name, e))
    ELSE Propagate(e) /\ UNCHANGED loopVars

\* Mutation: the worklog step is entered for every status but Completed.
Step2_UnlessCompleted(issue, status_name, acts, assignee_name) ==
    IF status_name = Completed
    THEN AppendResult(AlreadyCompletedResult(issue, status_name, acts, assignee_name))
    ELSE Goto("step2_worklogs") /\ UNCHANGED loopVars

\* Mutation: the worklog step is not gated on In Progress.
Step2_NoGate(issue, status_name, acts, assignee_name) ==
    IF status_name \in {InProgress, Open}
    THEN Goto("step2_worklogs") /\ UNCHANGED loopVars
    ELSE IF status_name = Completed
    THEN AppendResult(AlreadyCompletedResult(issue, status_name, acts, assignee_name))
    ELSE AppendResult(SuccessResult(issue, status_name, acts, assignee_name))

\* Mutation: the worklog step is left out.
Step2_NoWorklog(issue, status_name, acts, assignee_name) ==
    IF status_name = InProgress
    THEN Goto("step3_transitions") /\ UNCHANGED loopVars
    ELSE IF status_name = Completed
    THEN AppendResult(AlreadyCompletedResult(issue, status_name, acts, assignee_name))
    ELSE AppendResult(SuccessResult(issue, status_name, acts, assignee_name))

\* Mutation: a Completed sub-task is not short-circuited.
Step2_NoShortCircuit(issue, status_name, acts, assignee_name) ==
    IF status_name = InProgress
    THEN Goto("step2_worklogs") /\ UNCHANGED loopVars
    ELSE AppendResult(SuccessResult(issue, status_name, acts, assignee_name))

\* _process_single_subtask, lines 128-161, up to its next remote call: the
\* worklog step for In Progress., the short-circuit for Completed, and the
\* plain success return for everything else.
Step2(issue, status_name, acts, assignee_name) ==
    IF status_name = InProgress
    THEN Goto("step2_worklogs") /\ UNCHANGED loopVars
    ELSE IF status_name = Completed
    THEN AppendResult(AlreadyCompletedResult(issue, status_name, acts, assignee_name))
    ELSE AppendResult(SuccessResult(issue, status_name, acts, assignee_name))

\* _process_single_subtask, lines 111-126, up to its first remote call.
Step1(issue, status_name, assignee_name) ==
    /\ subtask' = issue
    /\ current_status' = status_name
    /\ assignee' = assignee_name
    /\ actions' = <<>>
    /\ chosen' = <<>>
    /\ IF status_name = Open
       THEN Goto("step1_transitions") /\ UNCHANGED loopVars
       ELSE Step2(issue, status_name, <<>>, assignee_name)

\* ---------------------------------------------------------------- actions
\* A request starts an invocation: process_story_subtasks, lines 38-42,
\* get_current_user.
GetCurrentUser ==
    /\ UNCHANGED <<creatorVars, appVars, directVars>>
    /\ pc \in {"idle", "returned", "raised"}
    /\ prevRan' = (pc # "idle")
    /\ status0' = [k \in DOMAIN tracker |-> tracker[k].status]
    /\ subtasks' = <<>>
    /\ summary' = NoSummary
    /\ results' = <<>>
    /\ processed_count' = 0
    /\ skipped_count' = 0
    /\ idx' = 0
    /\ subtask' = NoIssue
    /\ current_status' = None
    /\ assignee' = None
    /\ actions' = <<>>
    /\ chosen' = <<>>
    /\ UNCHANGED <<tracker, parentSubtasks, statusInit>>
    /\ \/ /\ calls' = <<CallRecord("myself", StoryKey, 0, NoException)>>
          /\ faults' = 0
          /\ username' = CurrentUser(Me).username
          /\ pc' = "get_subtasks"
          /\ raised' = NoException
       \/ \E e \in Exceptions :
          /\ calls' = <<CallRecord("myself", StoryKey, 0, e)>>
          /\ faults' = 1
          /\ username' = None
          /\ Propagate(e)

\* Mutation: the sub-tasks are processed last first.
GetSubtasks_Reversed ==
    /\ UNCHANGED <<creatorVars, appVars, directVars>>
    /\ pc = "get_subtasks"
    /\ UNCHANGED <<tracker, parentSubtasks, username, summary, status0, statusInit, prevRan>>
    /\ UNCHANGED itemVars
    /\ \/ /\ Succeeds("issue", StoryKey, 0)
          /\ subtasks' = [i \in DOMAIN parentSubtasks |->
                             parentSubtasks[Len(parentSubtasks) + 1 - i]]
          /\ results' = <<>>
          /\ processed_count' = 0
          /\ skipped_count' = 0
          /\ idx' = 1
          /\ Goto("loop")
       \/ \E e \in Exceptions :
          /\ Fails("issue", StoryKey, 0, e)
          /\ Propagate(e)
          /\ UNCHANGED <<subtasks, loopVars>>

\* process_story_subtasks, lines 44-49; get_subtasks.
GetSubtasks ==
    /\ UNCHANGED <<creatorVars, appVars, directVars>>
    /\ pc = "get_subtasks"
    /\ UNCHANGED <<tracker, parentSubtasks, username, summary, status0, statusInit, prevRan>>
    /\ UNCHANGED itemVars
    /\ \/ /\ Succeeds("issue", StoryKey, 0)
          /\ subtasks' = parentSubtasks
          /\ results' = <<>>
          /\ processed_count' = 0
          /\ skipped_count' = 0
          /\ idx' = 1
          /\ Goto("loop")
       \/ \E e \in Exceptions :
          /\ Fails("issue", StoryKey, 0, e)
          /\ Propagate(e)
          /\ UNCHANGED <<subtasks, loopVars>>

\* process_story_subtasks, lines 51-72: fetch the next sub-task, apply the
\* ownership filter, and enter _process_single_subtask.
GetIssue ==
    /\ UNCHANGED <<creatorVars, appVars, directVars>>
    /\ pc = "loop"
    /\ idx <= Len(subtasks)
    /\ UNCHANGED <<tracker, constVars>>
    /\ LET key == subtasks[idx] IN
       \/ /\ Succeeds("issue", key, 0)
          /\ LET issue == Issue(key) IN
             IF ~ ShouldProcessSubtask(issue, username)
             THEN AppendResult(NotAssignedResult(issue)) /\ UNCHANGED itemVars
             ELSE Step1(issue, issue.fields.status.name, AssigneeName(issue))
       \/ \E e \in Exceptions :
          /\ Fails("issue", key, 0, e)
          /\ Propagate(e)
          /\ UNCHANGED <<loopVars, itemVars>>

\* process_story_subtasks, lines 80-91.
Return ==
    /\ UNCHANGED <<creatorVars, appVars, directVars>>
    /\ pc = "loop"
    /\ idx > Len(subtasks)
    /\ summary' = [total |-> Len(subtasks),
                   processed |-> processed_count,
                   skipped |-> skipped_count]
    /\ pc' = "returned"
    /\ UNCHANGED <<tracker, parentSubtasks, username, subtasks, status0, statusInit, prevRan,
                   loopVars, itemVars, raised, calls, faults>>

\* _process_single_subtask, lines 119-120 and 125-126; transition_issue,
\* lines 94-96 and 101-102: list the transitions, look for the one to
\* "In Progress."; without one the method goes on at line 128.
Step1Transitions ==
    /\ UNCHANGED <<creatorVars, appVars, directVars>>
    /\ pc = "step1_transitions"
    /\ UNCHANGED <<tracker, constVars, subtask, current_status, assignee, actions>>
    /\ \/ \E transitions \in TransitionLists :
          /\ Lists(subtask.key, transitions, InProgress)
          /\ LET match == FirstTransitionTo(transitions, InProgress) IN
             IF match # <<>>
             THEN chosen' = match /\ Goto("step1_transition_issue") /\ UNCHANGED loopVars
             ELSE chosen' = <<>> /\ Step2(subtask, current_status, actions, assignee)
       \/ \E e \in Exceptions :
          /\ Fails("transitions", subtask.key, 0, e)
          /\ Except(e, subtask, current_status, actions, assignee)
          /\ chosen' = <<>>

\* _process_single_subtask, lines 120-121; transition_issue, lines 97-99:
\* execute the transition found.
Step1TransitionIssue ==
    /\ UNCHANGED <<creatorVars, appVars, directVars>>
    /\ pc = "step1_transition_issue"
    /\ UNCHANGED <<constVars, subtask, current_status, assignee>>
    /\ chosen' = <<>>
    /\ \/ /\ Succeeds("transition_issue", subtask.key, chosen[1])
          /\ tracker' = [tracker EXCEPT ![subtask.key].status = TransitionTable[chosen[1]]]
          /\ actions' = Append(actions, "Moved to In Progress")
          /\ Goto("step1_get_issue")
          /\ UNCHANGED loopVars
       \/ \E e \in Exceptions :
          /\ Fails("transition_issue", subtask.key, chosen[1], e)
          /\ Except(e, subtask, current_status, actions, assignee)
          /\ UNCHANGED <<tracker, actions>>

\* Mutation: the re-fetch after the first transition does not refresh the
\* status the method goes on with.
Step1GetIssue_NoRefresh ==
    /\ UNCHANGED <<creatorVars, appVars, directVars>>
    /\ pc = "step1_get_issue"
    /\ UNCHANGED <<tracker, constVars, assignee, actions, chosen>>
    /\ \/ /\ Succeeds("issue", subtask.key, 0)
          /\ LET issue == Issue(subtask.key) IN
             /\ subtask' = issue
             /\ current_status' = current_status
             /\ Step2(issue, current_status, actions, assignee)
       \/ \E e \in Exceptions :
          /\ Fails("issue", subtask.key, 0, e)
          /\ Except(e, subtask, current_status, actions, assignee)
          /\ UNCHANGED <<subtask, current_status>>

\* _process_single_subtask, lines 122-124 and the branch at 129/144.
Step1GetIssue ==
    /\ UNCHANGED <<creatorVars, appVars, directVars>>
    /\ pc = "step1_get_issue"
    /\ UNCHANGED <<tracker, constVars, assignee, actions, chosen>>
    /\ \/ /\ Succeeds("issue", subtask.key, 0)
          /\ LET issue == Issue(subtask.key) IN
             /\ subtask' = issue
             /\ current_status' = issue.fields.status.name
             /\ Step2(issue, issue.fields.status.name, actions, assignee)
       \/ \E e \in Exceptions :
          /\ Fails("issue", subtask.key, 0, e)
          /\ Except(e, subtask, current_status, actions, assignee)
          /\ UNCHANGED <<subtask, current_status>>

\* _process_single_subtask, lines 130 and 133-135; _has_worklog_by_user.
Step2Worklogs ==
    /\ UNCHANGED <<creatorVars, appVars, directVars>>
    /\ pc = "step2_worklogs"
    /\ UNCHANGED <<tracker, constVars, subtask, current_status, assignee, chosen>>
    /\ \/ /\ Succeeds("worklogs", subtask.key, 0)
          /\ IF ~ HasWorklogByUser(tracker[subtask.key].worklogs, username)
             THEN /\ Goto("step2_add_worklog")
                  /\ UNCHANGED <<actions, loopVars>>
             ELSE /\ actions' = Append(actions, "Work already logged, skipped worklog")
                  /\ Goto("step3_transitions")
                  /\ UNCHANGED loopVars
       \/ \E e \in Exceptions :
          /\ Fails("worklogs", subtask.key, 0, e)
          /\ Except(e, subtask, current_status, actions, assignee)
          /\ UNCHANGED actions

\* _process_single_subtask, lines 131-132; add_worklog.
Step2AddWorklog ==
    /\ UNCHANGED <<creatorVars, appVars, directVars>>
    /\ pc = "step2_add_worklog"
    /\ UNCHANGED <<constVars, subtask, current_status, assignee, chosen>>
    /\ \/ /\ Succeeds("add_worklog", subtask.key, 0)
          /\ tracker' = [tracker EXCEPT
                            ![subtask.key].worklogs = Append(@, Worklog(Me, "2h"))]
          /\ actions' = Append(actions, "Logged 2h work")
          /\ Goto("step3_transitions")
          /\ UNCHANGED loopVars
       \/ \E e \in Exceptions :
          /\ Fails("add_worklog", subtask.key, 0, e)
          /\ Except(e, subtask, current_status, actions, assignee)
          /\ UNCHANGED <<tracker, actions>>

\* _process_single_subtask, lines 138 and 140-141, then 154-161;
\* transition_issue, lines 94-96 and 101-102.
Step3Transitions ==
    /\ UNCHANGED <<creatorVars, appVars, directVars>>
    /\ pc = "step3_transitions"
    /\ UNCHANGED <<tracker, constVars, subtask, current_status, assignee, actions>>
    /\ \/ \E transitions \in TransitionLists :
          /\ Lists(subtask.key, transitions, Completed)
          /\ LET match == FirstTransitionTo(transitions, Completed) IN
             IF match # <<>>
             THEN chosen' = match /\ Goto("step3_transition_issue") /\ UNCHANGED loopVars
             ELSE /\ chosen' = <<>>
                  /\ AppendResult(SuccessResult(subtask, current_status, actions, assignee))
       \/ \E e \in Exceptions :
          /\ Fails("transitions", subtask.key, 0, e)
          /\ Except(e, subtask, current_status, actions, assignee)
          /\ chosen' = <<>>

\* _process_single_subtask, lines 138-139, then 154-161; transition_issue,
\* lines 97-99.
Step3TransitionIssue ==
    /\ UNCHANGED <<creatorVars, appVars, directVars>>
    /\ pc = "step3_transition_issue"
    /\ UNCHANGED <<constVars, subtask, current_status, assignee>>
    /\ chosen' = <<>>
    /\ \/ /\ Succeeds("transition_issue", subtask.key, chosen[1])
          /\ tracker' = [tracker EXCEPT ![subtask.key].status = TransitionTable[chosen[1]]]
          /\ actions' = Append(actions, "Moved to Completed")
          /\ AppendResult(SuccessResult(subtask, current_status,
                                        Append(actions, "Moved to Completed"), assignee))
       \/ \E e \in Exceptions :
          /\ Fails("transition_issue", subtask.key, chosen[1], e)
          /\ Except(e, subtask, current_status, actions, assignee)
          /\ UNCHANGED <<tracker, actions>>

\* ================================================ Sub-task Creation Workflow
\* config.py: the class attributes of Config with their defaults.
Config ==
    [JIRA_SERVER |-> "https://jira.sirionlabs.tech",
     JIRA_PAT |-> None,
     CUSTOM_FIELD_ID |-> "customfield_10111",
     CUSTOM_FIELD_VALUE |-> "Platform Comm Mgmt",
     DEFAULT_ESTIMATE |-> "2h",
     FLASK_HOST |-> "0.0.0.0",
     FLASK_PORT |-> 5000,
     DEBUG |-> FALSE]

SUBTASK_TEMPLATES ==
    <<"Unit Test Case Execution",
      "Peer Code Review",
      "Analysis & Understanding",
      "Internal Grooming among Team Members",
      "Dev Testing",
      "Unit Test Case Creation",
      "P0 Demo to QA and other stakeholders">>

\* Issue types of the tracker, and what jira.issue_types() may answer.
IssueType(id, name) == [id |-> id, name |-> name]
SubTaskType == IssueType("5", "Sub-task")
UpperSubTaskType == IssueType("7", "SUB-TASK")
StoryType == IssueType("1", "Story")
SubtaskType == IssueType("9", "Subtask")

IssueTypeListings ==
    {<<>>,
     <<StoryType>>,
     <<StoryType, SubtaskType>>,
     <<StoryType, SubTaskType>>,
     <<UpperSubTaskType, StoryType, SubTaskType>>,
     <<SubTaskType, UpperSubTaskType>>}

\* str.lower() on the names of the issue types above.
Lower(name) ==
    CASE name = "Sub-task" -> "sub-task"
      [] name = "SUB-TASK" -> "sub-task"
      [] name = "Story" -> "story"
      [] name = "Subtask" -> "subtask"
      [] OTHER -> name

\* Mutation: the id of the last listed type whose lowered name is "sub-task".
RECURSIVE GetSubtaskIssueTypeId_Last(_)
GetSubtaskIssueTypeId_Last(types) ==
    IF types = <<>> THEN None
    ELSE IF GetSubtaskIssueTypeId_Last(Tail(types)) # None
    THEN GetSubtaskIssueTypeId_Last(Tail(types))
    ELSE IF Lower(Head(types).name) = "sub-task" THEN Head(types).id
    ELSE None

\* _get_subtask_issue_type_id: the id of the first listed type whose lowered
\* name is "sub-task"; None when there is none.
RECURSIVE GetSubtaskIssueTypeId(_)
GetSubtaskIssueTypeId(types) ==
    IF types = <<>> THEN None
    ELSE IF Lower(Head(types).name) = "sub-task" THEN Head(types).id
    ELSE GetSubtaskIssueTypeId(Tail(types))

\* get_project: the project of the parent story.
Project == [id |-> "10001", key |-> "PROJ", name |-> "Test Project"]
NoProject == [id |-> None, key |-> None, name |-> None]

NoKey == -1
NoCreated == [key |-> NoKey]
NoStats == [total |-> -1, created |-> -1, failed |-> -1]

NotFound == [kind |-> "Exception", status_code |-> None,
             text |-> "Sub-task issue type not found"]

\* str(e): JIRAError prints its status code and its text, any other exception
\* its message.
Str(e) ==
    IF e.kind = "JIRAError"
    THEN <<"JiraError HTTP", e.status_code, "text:", e.text>>
    ELSE <<e.text>>

NoFields == [summary |-> None]

\* _create_single_subtask, lines 130-139.
Fields(parent_key, summary_text, project_id, issue_type_id) ==
    [project |-> project_id,
     parent |-> parent_key,
     summary |-> summary_text,
     description |-> summary_text,
     issuetype |-> issue_type_id,
     originalEstimate |-> Config.DEFAULT_ESTIMATE,
     custom_field_id |-> Config.CUSTOM_FIELD_ID,
     custom_field_value |-> Config.CUSTOM_FIELD_VALUE]

\* The key the tracker gives to the next issue it creates.
NewKey == 101 + Cardinality({i \in DOMAIN calls : calls[i].op = "create_issue" /\ calls[i].ok})

\* A remote call of the create invocation made now: e is its failure, or
\* NoException when it succeeds.
\* fields: the payload of a create call; for an assign call, the user to assign.
Calls(op, key, fields, e) ==
    /\ e # NoException => faults < MaxCreateFaults
    /\ calls' = Append(calls, [op |-> op, key |-> key, id |-> 0, ok |-> (e = NoException),
                               error |-> e, fields |-> fields])
    /\ faults' = IF e = NoException THEN faults ELSE faults + 1

\* _create_single_subtask, lines 148-153.
CreatedResult(created_issue, summary_text, user) ==
    [key |-> created_issue.key,
     summary |-> summary_text,
     status |-> "success",
     message |-> Message("Created and assigned to %s", <<user>>)]

\* create_subtasks, lines 83-91: the entry of a template whose creation raised.
FailedResult(summary_text, e) ==
    [key |-> NoKey,
     summary |-> summary_text,
     status |-> "error",
     message |-> Message("%s", Str(e))]

\* Mutation: the first template that fails ends the loop.
Created_StopAtFailure(result) ==
    /\ created' = Append(created, result)
    /\ failed_count' = IF result.status = "error" THEN failed_count + 1 ELSE failed_count
    /\ template' = IF result.status = "error" THEN Len(SUBTASK_TEMPLATES) + 1
                   ELSE template + 1
    /\ new_issue' = NoCreated
    /\ Goto("create_subtask")

\* create_subtasks, lines 72-91: one more entry, and on to the next template.
Created(result) ==
    /\ created' = Append(created, result)
    /\ failed_count' = IF result.status = "error" THEN failed_count + 1 ELSE failed_count
    /\ template' = template + 1
    /\ new_issue' = NoCreated
    /\ Goto("create_subtask")

\* create_subtasks, line 58: get_current_user.
CreateGetCurrentUser ==
    /\ UNCHANGED <<processorVars, appVars, directVars>>
    /\ pc \in {"idle", "returned", "raised"}
    /\ issue_types' = <<>>
    /\ subtask_issue_type_id' = None
    /\ project' = NoProject
    /\ created' = <<>>
    /\ failed_count' = 0
    /\ template' = 0
    /\ new_issue' = NoCreated
    /\ summary_stats' = NoStats
    /\ \/ /\ calls' = <<CallRecord("myself", StoryKey, 0, NoException)>>
          /\ faults' = 0
          /\ username' = CurrentUser(Me).username
          /\ pc' = "get_issue_types"
          /\ raised' = NoException
       \/ \E e \in Exceptions :
          /\ calls' = <<CallRecord("myself", StoryKey, 0, e)>>
          /\ faults' = 1
          /\ username' = None
          /\ Propagate(e)

\* create_subtasks, lines 62-64; _get_subtask_issue_type_id.
GetIssueTypes ==
    /\ UNCHANGED <<processorVars, appVars, directVars>>
    /\ pc = "get_issue_types"
    /\ UNCHANGED <<username, project, created, failed_count, template, new_issue, summary_stats>>
    /\ \/ \E types \in IssueTypeListings :
          /\ Calls("issue_types", StoryKey, NoFields, NoException)
          /\ issue_types' = types
          /\ subtask_issue_type_id' = GetSubtaskIssueTypeId(types)
          /\ IF GetSubtaskIssueTypeId(types) = None
             THEN Propagate(NotFound)
             ELSE Goto("get_project")
       \/ \E e \in Exceptions :
          /\ Calls("issue_types", StoryKey, NoFields, e)
          /\ Propagate(e)
          /\ UNCHANGED <<issue_types, subtask_issue_type_id>>

\* create_subtasks, lines 67-70; get_project.
GetProject ==
    /\ UNCHANGED <<processorVars, appVars, directVars>>
    /\ pc = "get_project"
    /\ UNCHANGED <<username, issue_types, subtask_issue_type_id, new_issue, summary_stats>>
    /\ \/ /\ Calls("issue", StoryKey, NoFields, NoException)
          /\ project' = Project
          /\ created' = <<>>
          /\ failed_count' = 0
          /\ template' = 1
          /\ Goto("create_subtask")
       \/ \E e \in Exceptions :
          /\ Calls("issue", StoryKey, NoFields, e)
          /\ Propagate(e)
          /\ UNCHANGED <<project, created, failed_count, template>>

\* Mutation: the assignment is attempted although the creation failed.
CreateSubtask_AssignAnyway ==
    /\ UNCHANGED <<processorVars, appVars, directVars>>
    /\ pc = "create_subtask"
    /\ template <= Len(SUBTASK_TEMPLATES)
    /\ UNCHANGED <<username, issue_types, subtask_issue_type_id, project, summary_stats>>
    /\ LET summary_text == SUBTASK_TEMPLATES[template]
           fields == Fields(StoryKey, summary_text, project.id, subtask_issue_type_id)
       IN \/ /\ Calls("create_issue", NewKey, fields, NoException)
             /\ new_issue' = [key |-> NewKey]
             /\ Goto("assign_issue")
             /\ UNCHANGED <<created, failed_count, template>>
          \/ \E e \in Exceptions :
             /\ Calls("create_issue", StoryKey, fields, e)
             /\ Goto("assign_issue")
             /\ UNCHANGED <<created, failed_count, template, new_issue>>

\* create_subtasks, lines 72-91; _create_single_subtask, lines 130-143:
\* create the sub-task of the next template.
CreateSubtask ==
    /\ UNCHANGED <<processorVars, appVars, directVars>>
    /\ pc = "create_subtask"
    /\ template <= Len(SUBTASK_TEMPLATES)
    /\ UNCHANGED <<username, issue_types, subtask_issue_type_id, project, summary_stats>>
    /\ LET summary_text == SUBTASK_TEMPLATES[template]
           fields == Fields(StoryKey, summary_text, project.id, subtask_issue_type_id)
       IN \/ /\ Calls("create_issue", NewKey, fields, NoException)
             /\ new_issue' = [key |-> NewKey]
             /\ Goto("assign_issue")
             /\ UNCHANGED <<created, failed_count, template>>
          \/ \E e \in Exceptions :
             /\ Calls("create_issue", StoryKey, fields, e)
             /\ Created(FailedResult(summary_text, e))

\* _create_single_subtask, lines 146-153; create_subtasks, lines 81-91.
AssignIssue ==
    /\ UNCHANGED <<processorVars, appVars, directVars>>
    /\ pc = "assign_issue"
    /\ UNCHANGED <<username, issue_types, subtask_issue_type_id, project, summary_stats>>
    /\ LET summary_text == SUBTASK_TEMPLATES[template]
           fields == [assignee |-> username]
       IN \/ /\ Calls("assign_issue", new_issue.key, fields, NoException)
             /\ Created(CreatedResult(new_issue, summary_text, username))
          \/ \E e \in Exceptions :
             /\ Calls("assign_issue", new_issue.key, fields, e)
             /\ Created(FailedResult(summary_text, e))

\* create_subtasks, lines 93-104.
CreateReturn ==
    /\ UNCHANGED <<processorVars, appVars, directVars>>
    /\ pc = "create_subtask"
    /\ template > Len(SUBTASK_TEMPLATES)
    /\ summary_stats' = [total |-> Len(SUBTASK_TEMPLATES),
                         created |-> Len(SUBTASK_TEMPLATES) - failed_count,
                         failed |-> failed_count]
    /\ pc' = "returned"
    /\ UNCHANGED <<username, issue_types, subtask_issue_type_id, project, created,
                   failed_count, template, new_issue, raised, calls, faults>>

\* ========================================================= request handlers
\* The parent story the requests name has no sub-task or one; the sub-tasks
\* the tracker may hold when the first request arrives.
ApiSubtaskCounts == {0, 1}
ApiIssueStates ==
    {[status |-> Open, assignee |-> Me, worklogs |-> <<>>],
     [status |-> InProgress, assignee |-> Other, worklogs |-> <<Worklog(Other, "1h")>>]}

\* A field of the request body is missing, is JSON null, or is a string.
Missing == "<missing>"
Null == "<null>"
IsStr(value) == value \notin {Missing, Null}

StoryKeyInputs == {Missing, Null, "", "   ", "invalid", " PROJ-123 "}
PatInputs == {Missing, Null, "", "   ", " test-token "}
\* Config.JIRA_PAT: None, unless the deployment has set it.
ConfiguredPats == {None, "configured-token"}

\* str.strip() on the strings above.
Strip(text) ==
    CASE text = "   " -> ""
      [] text = " PROJ-123 " -> "PROJ-123"
      [] text = " test-token " -> "test-token"
      [] OTHER -> text

\* '-' in text
HasDash(text) == text \in {"PROJ-123", " PROJ-123 "}

NoRequest == [route |-> None, story_key |-> Missing, jira_pat |-> Missing, JIRA_PAT |-> None]
NoClient == [server |-> None, token |-> None]
NoResponse == [status |-> None]

\* What the JIRA constructor may raise: the failures of any remote call, and
\* a JIRAError that carries no status code (the server gave no response).
ConnectExceptions == Exceptions \cup {JIRAError(None, "no response")}

\* data[...].strip() on a value that is not a string.
AttributeError == [kind |-> "AttributeError", status_code |-> None,
                   text |-> "object has no attribute 'strip'"]

\* The HTTP status of a response returned as (body, status): Flask keeps the
\* default status 200 when status is None.
HttpStatus(status) == IF status = None THEN "200" ELSE status

\* hasattr(e, 'status_code'): JIRAError sets the attribute in its constructor.
HasAttrStatusCode(e) == e.kind = "JIRAError"

Rejected(error) ==
    [status |-> HttpStatus("400"),
     body |-> [success |-> FALSE, error |-> Message(error, <<>>)]]

\* except JIRAError, lines 114-120 and 195-201.
JiraErrorResponse(e) ==
    [status |-> HttpStatus(IF HasAttrStatusCode(e) THEN e.status_code ELSE "500"),
     body |-> [success |-> FALSE,
               error |-> Message("Jira API Error: %s", <<e.text>>),
               error_code |-> e.status_code]]

\* except Exception, lines 122-127 and 203-208.
UnexpectedResponse(e) ==
    [status |-> HttpStatus("500"),
     body |-> [success |-> FALSE, error |-> Message("Unexpected error: %s", Str(e))]]

Failure(e) == IF e.kind = "JIRAError" THEN JiraErrorResponse(e) ELSE UnexpectedResponse(e)

\* api_process_tasks, lines 72-97: the response that ends the request before
\* the JiraClient is constructed, or NoResponse.
ApiProcessTasksValidation(data) ==
    IF data.story_key = Missing THEN Rejected("story_key is required")
    ELSE IF ~ IsStr(data.story_key) THEN UnexpectedResponse(AttributeError)
    ELSE IF data.jira_pat = Missing THEN Rejected("Jira PAT is required")
    ELSE IF ~ IsStr(data.jira_pat) THEN UnexpectedResponse(AttributeError)
    ELSE IF Strip(data.jira_pat) = "" THEN Rejected("Jira PAT is required")
    ELSE IF Strip(data.story_key) = "" \/ ~ HasDash(Strip(data.story_key))
    THEN Rejected("Invalid story key format. Expected format: PROJ-123")
    ELSE NoResponse

\* Mutation: the create handler checks the format of the parent key before
\* the credential.
ApiCreateSubtasksValidation_KeyFirst(data) ==
    IF data.story_key = Missing THEN Rejected("story_key is required")
    ELSE IF ~ IsStr(data.story_key) THEN UnexpectedResponse(AttributeError)
    ELSE IF Strip(data.story_key) = "" \/ ~ HasDash(Strip(data.story_key))
    THEN Rejected("Invalid story key format. Expected format: PROJ-123")
    ELSE IF data.jira_pat = Missing THEN Rejected("Jira PAT is required")
    ELSE IF ~ IsStr(data.jira_pat) THEN UnexpectedResponse(AttributeError)
    ELSE IF Strip(data.jira_pat) = "" THEN Rejected("Jira PAT is required")
    ELSE NoResponse

\* api_create_subtasks, lines 148-173.
ApiCreateSubtasksValidation(data) ==
    IF data.story_key = Missing THEN Rejected("story_key is required")
    ELSE IF ~ IsStr(data.story_key) THEN UnexpectedResponse(AttributeError)
    ELSE IF data.jira_pat = Missing THEN Rejected("Jira PAT is required")
    ELSE IF ~ IsStr(data.jira_pat) THEN UnexpectedResponse(AttributeError)
    ELSE IF Strip(data.jira_pat) = "" THEN Rejected("Jira PAT is required")
    ELSE IF Strip(data.story_key) = "" \/ ~ HasDash(Strip(data.story_key))
    THEN Rejected("Invalid story key format. Expected format: PROJ-123")
    ELSE NoResponse

\* Mutation: the summary tells whether a credential is configured.
GetConfigSummary_PatDetected(cfg) ==
    [jira_server |-> cfg.JIRA_SERVER,
     jira_pat_configured |-> (cfg.JIRA_PAT # None),
     custom_field_id |-> cfg.CUSTOM_FIELD_ID,
     custom_field_value |-> cfg.CUSTOM_FIELD_VALUE,
     default_estimate |-> cfg.DEFAULT_ESTIMATE,
     flask_host |-> cfg.FLASK_HOST,
     flask_port |-> cfg.FLASK_PORT,
     debug |-> cfg.DEBUG]

\* Config.get_config_summary.
GetConfigSummary(cfg) ==
    [jira_server |-> cfg.JIRA_SERVER,
     jira_pat_configured |-> FALSE,
     custom_field_id |-> cfg.CUSTOM_FIELD_ID,
     custom_field_value |-> cfg.CUSTOM_FIELD_VALUE,
     default_estimate |-> cfg.DEFAULT_ESTIMATE,
     flask_host |-> cfg.FLASK_HOST,
     flask_port |-> cfg.FLASK_PORT,
     debug |-> cfg.DEBUG]

\* health
HealthResponse(cfg) ==
    [status |-> HttpStatus(None),
     body |-> [status |-> "healthy", config |-> GetConfigSummary(cfg)]]

\* A request arrives.
NewRequest(route, data, configured_pat) ==
    /\ handler_pc = "idle"
    /\ request' = [route |-> route, story_key |-> data.story_key,
                   jira_pat |-> data.jira_pat,
                   JIRA_PAT |-> configured_pat]
    /\ UNCHANGED <<directVars, processorVars, creatorVars, client, pc, username, raised, calls, faults>>

\* The response has been sent: nothing of the request is left but the
\* tracker's issues.
EndOfRequest ==
    /\ handler_pc = "responded"
    /\ handler_pc' = "idle"
    /\ request' = NoRequest
    /\ response' = NoResponse
    /\ client' = NoClient
    /\ pc' = "idle"
    /\ raised' = NoException
    /\ calls' = <<>>
    /\ faults' = 0
    /\ username' = None
    /\ subtasks' = <<>>
    /\ idx' = 0
    /\ results' = <<>>
    /\ processed_count' = 0
    /\ skipped_count' = 0
    /\ summary' = NoSummary
    /\ subtask' = NoIssue
    /\ current_status' = None
    /\ assignee' = None
    /\ actions' = <<>>
    /\ chosen' = <<>>
    /\ status0' = [k \in DOMAIN tracker |-> tracker[k].status]
    /\ issue_types' = <<>>
    /\ subtask_issue_type_id' = None
    /\ project' = NoProject
    /\ created' = <<>>
    /\ failed_count' = 0
    /\ template' = 0
    /\ new_issue' = NoCreated
    /\ summary_stats' = NoStats
    /\ UNCHANGED <<tracker, parentSubtasks, statusInit, prevRan, directVars>>

\* api_process_tasks, lines 72-97.
ApiProcessTasks ==
    \E story_key \in StoryKeyInputs, jira_pat \in PatInputs, configured_pat \in ConfiguredPats :
       LET data == [story_key |-> story_key, jira_pat |-> jira_pat]
           rejection == ApiProcessTasksValidation(data)
       IN /\ NewRequest("process", data, configured_pat)
          /\ response' = rejection
          /\ handler_pc' = IF rejection = NoResponse THEN "client" ELSE "responded"

\* api_create_subtasks, lines 148-173.
ApiCreateSubtasks ==
    \E story_key \in StoryKeyInputs, jira_pat \in PatInputs, configured_pat \in ConfiguredPats :
       LET data == [story_key |-> story_key, jira_pat |-> jira_pat]
           rejection == ApiCreateSubtasksValidation(data)
       IN /\ NewRequest("create", data, configured_pat)
          /\ response' = rejection
          /\ handler_pc' = IF rejection = NoResponse THEN "client" ELSE "responded"

\* Lines 102 and 178: JiraClient(Config.JIRA_SERVER, jira_pat) connects to the
\* server; an exception of the constructor is handled at lines 114-127 and
\* 195-208.
ApiJiraClient ==
    /\ handler_pc = "client"
    /\ UNCHANGED <<directVars, processorVars, creatorVars, request, pc, username>>
    /\ \/ /\ calls' = <<CallRecord("server_info", StoryKey, 0, NoException)>>
          /\ faults' = 0
          /\ client' = [server |-> Config.JIRA_SERVER,
                        token |-> Strip(request.jira_pat)]
          /\ raised' = NoException
          /\ response' = NoResponse
          /\ handler_pc' = "workflow"
       \/ \E e \in ConnectExceptions :
          /\ calls' = <<CallRecord("server_info", StoryKey, 0, e)>>
          /\ faults' = 1
          /\ client' = NoClient
          /\ raised' = e
          /\ response' = Failure(e)
          /\ handler_pc' = "responded"

\* Lines 103-106: TaskProcessor(jira_client).process_story_subtasks(story_key).
ApiProcessStorySubtasks ==
    /\ handler_pc = "workflow"
    /\ request.route = "process"
    /\ pc = "idle"
    /\ GetCurrentUser

\* Lines 179-187: SubtaskCreator(jira_client, ...).create_subtasks(story_key).
ApiCreateSubtasksCall ==
    /\ handler_pc = "workflow"
    /\ request.route = "create"
    /\ pc = "idle"
    /\ CreateGetCurrentUser

\* api_process_tasks, lines 108-127: the workflow has returned or raised.
ApiProcessTasksResponse ==
    /\ handler_pc = "workflow"
    /\ request.route = "process"
    /\ pc \in {"returned", "raised"}
    /\ response' = IF pc = "raised" THEN Failure(raised)
                   ELSE [status |-> HttpStatus(None),
                         body |-> [success |-> TRUE, results |-> results,
                                   summary |-> summary]]
    /\ handler_pc' = "responded"
    /\ UNCHANGED <<directVars, processorVars, creatorVars, request, client, pc, username, raised,
                   calls, faults>>

\* api_create_subtasks, lines 189-208.
ApiCreateSubtasksResponse ==
    /\ handler_pc = "workflow"
    /\ request.route = "create"
    /\ pc \in {"returned", "raised"}
    /\ response' = IF pc = "raised" THEN Failure(raised)
                   ELSE [status |-> HttpStatus(None),
                         body |-> [success |-> TRUE, created |-> created,
                                   summary |-> summary_stats]]
    /\ handler_pc' = "responded"
    /\ UNCHANGED <<directVars, processorVars, creatorVars, request, client, pc, username, raised,
                   calls, faults>>

\* health, lines 211-217.
Health ==
    \E jira_pat \in PatInputs, configured_pat \in ConfiguredPats :
       /\ NewRequest("health", [story_key |-> Missing, jira_pat |-> jira_pat],
                     configured_pat)
       /\ response' = HealthResponse([Config EXCEPT !.JIRA_PAT = configured_pat])
       /\ handler_pc' = "responded"

\* ================================================== overlapping invocations
\* The server handles each request in a thread of its own; the locals of
\* process_story_subtasks and _process_single_subtask belong to the thread,
\* the tracker is shared.
Locals ==
    [pc |-> pc, username |-> username, subtasks |-> subtasks, idx |-> idx,
     results |-> results, processed_count |-> processed_count,
     skipped_count |-> skipped_count, summary |-> summary, subtask |-> subtask,
     current_status |-> current_status, assignee |-> assignee, actions |-> actions,
     chosen |-> chosen, raised |-> raised, calls |-> calls, faults |-> faults,
     status0 |-> status0]

\* An invocation that has not started.
NoInvocation ==
    [pc |-> "idle", username |-> None, subtasks |-> <<>>, idx |-> 0,
     results |-> <<>>, processed_count |-> 0, skipped_count |-> 0,
     summary |-> NoSummary, subtask |-> NoIssue, current_status |-> None,
     assignee |-> None, actions |-> <<>>, chosen |-> <<>>, raised |-> NoException,
     calls |-> <<>>, faults |-> 0, status0 |-> <<>>]

\* The two threads are scheduled between their remote calls: the running one
\* is suspended, the other one runs on from where it was.
Switch ==
    /\ other.pc \notin {"returned", "raised"}
    /\ other' = Locals
    /\ pc' = other.pc
    /\ username' = other.username
    /\ subtasks' = other.subtasks
    /\ idx' = other.idx
    /\ results' = other.results
    /\ processed_count' = other.processed_count
    /\ skipped_count' = other.skipped_count
    /\ summary' = other.summary
    /\ subtask' = other.subtask
    /\ current_status' = other.current_status
    /\ assignee' = other.assignee
    /\ actions' = other.actions
    /\ chosen' = other.chosen
    /\ raised' = other.raised
    /\ calls' = other.calls
    /\ faults' = other.faults
    /\ status0' = IF other.pc = "idle"
                  THEN [k \in DOMAIN tracker |-> tracker[k].status]
                  ELSE other.status0
    /\ UNCHANGED <<tracker, parentSubtasks, statusInit, prevRan, creatorVars, appVars,
                   invoked>>

\* =============================================== methods called on their own
NoInvoked == [method |-> None, at |-> "idle"]

\* Text as the sequence of its characters.
Http == <<"h", "t", "t", "p", ":", "/", "/">>
Https == <<"h", "t", "t", "p", "s", ":", "/", "/">>
Host == <<"j", ".", "c", "o">>

\* str.startswith(prefix)
StartsWith(text, prefix) ==
    /\ Len(text) >= Len(prefix)
    /\ SubSeq(text, 1, Len(prefix)) = prefix

\* Values of JIRA_SERVER: empty, with either scheme, the scheme alone, no
\* scheme, another scheme, a scheme cut short, in capitals, after a blank.
ServerInputs ==
    {<<>>, Http \o Host, Https \o Host, Http, Host,
     <<"f", "t", "p", ":", "/", "/">> \o Host,
     <<"h", "t", "t", "p", ":", "/">> \o Host,
     <<"H", "T", "T", "P", ":", "/", "/">> \o Host,
     <<" ">> \o Https \o Host}

\* Values of FLASK_PORT.
PortInputs == {-1, 0, 1, 5000, 65535, 65536, 99999}

\* Mutation: the port is checked first.
ConfigValidate_PortFirst(cfg) ==
    IF cfg.FLASK_PORT < 1 \/ cfg.FLASK_PORT > 65535
    THEN [is_valid |-> FALSE, error |-> "FLASK_PORT must be between 1 and 65535"]
    ELSE IF cfg.JIRA_SERVER = <<>>
    THEN [is_valid |-> FALSE, error |-> "JIRA_SERVER is required"]
    ELSE IF ~ (StartsWith(cfg.JIRA_SERVER, Http) \/ StartsWith(cfg.JIRA_SERVER, Https))
    THEN [is_valid |-> FALSE, error |-> "JIRA_SERVER must start with http:// or https://"]
    ELSE [is_valid |-> TRUE, error |-> None]

\* Config.validate, lines 31-40.
ConfigValidate(cfg) ==
    IF cfg.JIRA_SERVER = <<>>
    THEN [is_valid |-> FALSE, error |-> "JIRA_SERVER is required"]
    ELSE IF ~ (StartsWith(cfg.JIRA_SERVER, Http) \/ StartsWith(cfg.JIRA_SERVER, Https))
    THEN [is_valid |-> FALSE, error |-> "JIRA_SERVER must start with http:// or https://"]
    ELSE IF cfg.FLASK_PORT < 1 \/ cfg.FLASK_PORT > 65535
    THEN [is_valid |-> FALSE, error |-> "FLASK_PORT must be between 1 and 65535"]
    ELSE [is_valid |-> TRUE, error |-> None]

\* Config.validate() under a configuration set by the environment or patched
\* by a test.
Validate ==
    /\ invoked.at \in {"idle", "returned", "raised"}
    /\ \E server \in ServerInputs, port \in PortInputs :
          LET cfg == [JIRA_SERVER |-> server, FLASK_PORT |-> port]
          IN invoked' = [method |-> "validate", at |-> "returned",
                         JIRA_SERVER |-> server, FLASK_PORT |-> port,
                         returned |-> ConfigValidate(cfg)]
    /\ calls' = <<>>
    /\ raised' = NoException
    /\ UNCHANGED <<processorVars, creatorVars, appVars, other, pc, username, faults>>

\* JiraClient.transition_issue(issue, transition_name), lines 94-96 and
\* 101-102: list the transitions of the issue and look for the first one to
\* the status; return False when there is none.
TransitionIssueTransitions ==
    /\ invoked.at \in {"idle", "returned", "raised"}
    /\ UNCHANGED <<processorVars, creatorVars, appVars, other, pc, username, faults>>
    /\ \E key \in DOMAIN tracker, transition_name \in {InProgress, Completed} :
          \/ \E transitions \in TransitionLists :
                LET match == FirstTransitionTo(transitions, transition_name)
                IN /\ calls' = <<CallRecord("transitions", key, 0, NoException)>>
                   /\ raised' = NoException
                   /\ invoked' = [method |-> "transition_issue",
                                  at |-> IF match = <<>> THEN "returned" ELSE "found",
                                  key |-> key,
                                  transition_name |-> transition_name,
                                  transitions |-> transitions,
                                  found |-> match,
                                  status |-> tracker[key].status,
                                  returned |-> FALSE]
          \/ \E e \in Exceptions :
                /\ calls' = <<CallRecord("transitions", key, 0, e)>>
                /\ raised' = e
                /\ invoked' = [method |-> "transition_issue", at |-> "raised",
                               key |-> key, transition_name |-> transition_name,
                               transitions |-> <<>>, found |-> <<>>,
                               status |-> tracker[key].status, returned |-> FALSE]

\* JiraClient.transition_issue, lines 97-99: execute the transition found
\* and return True.
TransitionIssueExecute ==
    /\ invoked.method = "transition_issue"
    /\ invoked.at = "found"
    /\ UNCHANGED <<constVars, loopVars, itemVars, creatorVars, appVars, other, pc, faults>>
    /\ \/ /\ calls' = Append(calls, CallRecord("transition_issue", invoked.key,
                                                invoked.found[1], NoException))
          /\ tracker' = [tracker EXCEPT
                            ![invoked.key].status = TransitionTable[invoked.found[1]]]
          /\ raised' = NoException
          /\ invoked' = [invoked EXCEPT !.at = "returned", !.returned = TRUE]
       \/ \E e \in Exceptions :
          /\ calls' = Append(calls, CallRecord("transition_issue", invoked.key,
                                                invoked.found[1], e))
          /\ raised' = e
          /\ invoked' = [invoked EXCEPT !.at = "raised"]
          /\ UNCHANGED tracker

\* TaskProcessor._has_worklog_by_user(subtask, username), lines 204-208.
HasWorklogByUserWorklogs ==
    /\ invoked.at \in {"idle", "returned", "raised"}
    /\ UNCHANGED <<processorVars, creatorVars, appVars, other, pc, username, faults>>
    /\ \E key \in DOMAIN tracker, name \in {Me.name, Other.name} :
          \/ /\ calls' = <<CallRecord("worklogs", key, 0, NoException)>>
             /\ raised' = NoException
             /\ invoked' = [method |-> "_has_worklog_by_user", at |-> "returned",
                            key |-> key, username |-> name,
                            worklogs |-> tracker[key].worklogs,
                            returned |-> HasWorklogByUser(tracker[key].worklogs, name)]
          \/ \E e \in Exceptions :
             /\ calls' = <<CallRecord("worklogs", key, 0, e)>>
             /\ raised' = e
             /\ invoked' = [method |-> "_has_worklog_by_user", at |-> "raised",
                            key |-> key, username |-> name,
                            worklogs |-> <<>>, returned |-> FALSE]

\* ========================================================= specifications

InitProcessor(sizes, states) ==
    /\ \E n \in sizes :
          /\ parentSubtasks = [i \in 1..n |-> i]
          /\ tracker \in [1..n -> states]
    /\ pc = "idle"
    /\ username = None
    /\ subtasks = <<>>
    /\ idx = 0
    /\ results = <<>>
    /\ processed_count = 0
    /\ skipped_count = 0
    /\ summary = NoSummary
    /\ subtask = NoIssue
    /\ current_status = None
    /\ assignee = None
    /\ actions = <<>>
    /\ chosen = <<>>
    /\ raised = NoException
    /\ calls = <<>>
    /\ faults = 0
    /\ status0 = [k \in DOMAIN tracker |-> tracker[k].status]
    /\ statusInit = status0
    /\ prevRan = FALSE

InitCreator ==
    /\ issue_types = <<>>
    /\ subtask_issue_type_id = None
    /\ project = NoProject
    /\ created = <<>>
    /\ failed_count = 0
    /\ template = 0
    /\ new_issue = NoCreated
    /\ summary_stats = NoStats

InitApp ==
    /\ request = NoRequest
    /\ handler_pc = "idle"
    /\ client = NoClient
    /\ response = NoResponse
    /\ other = NoInvocation
    /\ invoked = NoInvoked

\* Task Advancement Workflow: TaskProcessor.process_story_subtasks, invoked
\* any number of times, one invocation after the other.
Init == InitProcessor(0..MaxSubtasks, IssueStates) /\ InitCreator /\ InitApp

Next ==
    \/ GetCurrentUser
    \/ GetSubtasks
    \/ GetIssue
    \/ Return
    \/ Step1Transitions
    \/ Step1TransitionIssue
    \/ Step1GetIssue
    \/ Step2Worklogs
    \/ Step2AddWorklog
    \/ Step3Transitions
    \/ Step3TransitionIssue

Spec == Init /\ [][Next]_vars

\* Sub-task Creation Workflow: SubtaskCreator.create_subtasks, invoked any
\* number of times, one invocation after the other.
InitCreate == InitProcessor({0}, IssueStates) /\ InitCreator /\ InitApp

NextCreate ==
    \/ CreateGetCurrentUser
    \/ GetIssueTypes
    \/ GetProject
    \/ CreateSubtask
    \/ AssignIssue
    \/ CreateReturn

SpecCreate == InitCreate /\ [][NextCreate]_vars

\* The request handlers, one request after the other, each running its
\* workflow to the end.
InitApi == InitProcessor(ApiSubtaskCounts, ApiIssueStates) /\ InitCreator /\ InitApp

NextApi ==
    \/ ApiProcessTasks
    \/ ApiCreateSubtasks
    \/ ApiJiraClient
    \/ ApiProcessStorySubtasks
    \/ ApiCreateSubtasksCall
    \/ ApiProcessTasksResponse
    \/ ApiCreateSubtasksResponse
    \/ Health
    \/ EndOfRequest
    \/ GetSubtasks
    \/ GetIssue
    \/ Return
    \/ Step1Transitions
    \/ Step1TransitionIssue
    \/ Step1GetIssue
    \/ Step2Worklogs
    \/ Step2AddWorklog
    \/ Step3Transitions
    \/ Step3TransitionIssue
    \/ GetIssueTypes
    \/ GetProject
    \/ CreateSubtask
    \/ AssignIssue
    \/ CreateReturn

SpecApi == InitApi /\ [][NextApi]_vars

\* One invocation of either workflow, called on a fresh collaborator:
\* process_story_subtasks on a parent with any sub-tasks ...
ProcessStorySubtasks ==
    /\ pc = "idle"
    /\ GetCurrentUser

\* ... or create_subtasks on a parent that has no sub-tasks yet.
CreateSubtasks ==
    /\ pc = "idle"
    /\ parentSubtasks = <<>>
    /\ CreateGetCurrentUser

NextInvocation ==
    \/ ProcessStorySubtasks
    \/ GetSubtasks
    \/ GetIssue
    \/ Return
    \/ Step1Transitions
    \/ Step1TransitionIssue
    \/ Step1GetIssue
    \/ Step2Worklogs
    \/ Step2AddWorklog
    \/ Step3Transitions
    \/ Step3TransitionIssue
    \/ CreateSubtasks
    \/ GetIssueTypes
    \/ GetProject
    \/ CreateSubtask
    \/ AssignIssue
    \/ CreateReturn

SpecInvocation == Init /\ [][NextInvocation]_vars

\* ... in which every remote call returns, with an answer or an exception, and
\* the code that follows it runs: the calls are blocking calls of one thread.
SpecInvocationFair == SpecInvocation /\ WF_vars(NextInvocation)

\* The methods called on their own, one call after the other, on an issue
\* with any worklogs.
Keyed == [name |-> NoAttr, key |-> "testuser"]       \* a user resource without a name
Crossed == [name |-> "otheruser", key |-> "testuser"]
DirectIssueStates ==
    {[status |-> Open, assignee |-> Me,
      worklogs |-> [i \in DOMAIN authors |-> Worklog(authors[i], "1h")]] :
        authors \in SeqsUpTo({Me, Other, Keyed, Crossed}, 2)}

InitDirect == InitProcessor({1}, DirectIssueStates) /\ InitCreator /\ InitApp

NextDirect ==
    \/ Validate
    \/ TransitionIssueTransitions
    \/ TransitionIssueExecute
    \/ HasWorklogByUserWorklogs

SpecDirect == InitDirect /\ [][NextDirect]_vars

\* Two invocations of process_story_subtasks by the same user on the same
\* parent, in two request threads that overlap.
OverlapSubtaskCounts == {1}
OverlapIssueStates == {s \in IssueStates : s.assignee = Me}

InitOverlap ==
    InitProcessor(OverlapSubtaskCounts, OverlapIssueStates) /\ InitCreator /\ InitApp

NextOverlap ==
    \/ Switch
    \/ ProcessStorySubtasks
    \/ GetSubtasks
    \/ GetIssue
    \/ Return
    \/ Step1Transitions
    \/ Step1TransitionIssue
    \/ Step1GetIssue
    \/ Step2Worklogs
    \/ Step2AddWorklog
    \/ Step3Transitions
    \/ Step3TransitionIssue

SpecOverlap == InitOverlap /\ [][NextOverlap]_vars

\* ================================================================ claims
\* What the history says about one sub-task in the running invocation.
CallsOn(key) == SelectSeq(calls, LAMBDA c : c.key = key)
Ops(cs) == [i \in DOMAIN cs |-> cs[i].op]
OpsOn(key) == Range(Ops(CallsOn(key)))
Executed(key, op) == \E i \in DOMAIN calls : calls[i].key = key /\ calls[i].op = op /\ calls[i].ok

IsMine(worklog) == worklog.author = Me
WorklogsByMe(key) == Len(SelectSeq(tracker[key].worklogs, IsMine))
AddedNow(key) == Len(SelectSeq(CallsOn(key), LAMBDA c : c.op = "add_worklog" /\ c.ok))
\* A worklog by the caller was on the sub-task before this invocation touched it.
HadMyWorklog(key) == WorklogsByMe(key) - AddedNow(key) > 0

AssignedToMe(key) == tracker[key].assignee = Me
Reported == DOMAIN results
KeyOf(i) == subtasks[i]

\* C1: a sub-task without assignee, or assigned to someone else, is reported as
\* skipped with the message "Not assigned to me (assignee=<name or None>)" and
\* no actions, and the invocation makes no transition, worklog or assign call
\* on it.
C1_NotAssignedSkipped ==
    /\ \A i \in Reported :
          ~ AssignedToMe(KeyOf(i)) =>
             /\ results[i].status = "skipped"
             /\ results[i].actions = <<>>
             /\ results[i].message =
                   Message("Not assigned to me (assignee=%s)",
                           IF tracker[KeyOf(i)].assignee = NoUser THEN None
                           ELSE tracker[KeyOf(i)].assignee.name)
    /\ \A k \in DOMAIN tracker :
          ~ AssignedToMe(k) =>
             OpsOn(k) \cap {"transitions", "transition_issue", "worklogs",
                            "add_worklog", "assign_issue"} = {}

\* The invocation returned; it skipped a sub-task that is not the caller's and
\* advanced one that is.
C1_Witness ==
    /\ pc = "returned"
    /\ \E i, j \in Reported :
          /\ tracker[KeyOf(i)].assignee \in {Other, NoUser}
          /\ results[i].status = "skipped"
          /\ AssignedToMe(KeyOf(j))
          /\ results[j].actions # <<>>

\* C2: a sub-task of the caller that is Completed when the invocation fetches
\* it is reported as skipped, "Already Completed", with no actions, and the
\* invocation lists or executes no transition and lists or adds no worklog on it.
C2_CompletedSkipped ==
    /\ \A i \in Reported :
          (AssignedToMe(KeyOf(i)) /\ status0[KeyOf(i)] = Completed) =>
             /\ results[i].status = "skipped"
             /\ results[i].message = Message("Already Completed", None)
             /\ results[i].actions = <<>>
    /\ \A k \in DOMAIN tracker :
          (AssignedToMe(k) /\ status0[k] = Completed) =>
             OpsOn(k) \subseteq {"issue"}

C2_Witness ==
    /\ pc = "returned"
    /\ \E i \in Reported :
          /\ AssignedToMe(KeyOf(i))
          /\ status0[KeyOf(i)] = Completed
          /\ results[i].message = Message("Already Completed", None)

\* C3: a sub-task of the caller that was Open, carried no worklog of the caller,
\* and was moved to In Progress. and then to Completed by the invocation is
\* reported as success with exactly the actions "Moved to In Progress",
\* "Logged 2h work", "Moved to Completed", and the remote calls on it were, in
\* order: fetch, list and execute the transition, fetch again, list the
\* worklogs, add the worklog, list and execute the transition.
C3_OpenToCompleted ==
    \A i \in Reported :
       (/\ AssignedToMe(KeyOf(i))
        /\ status0[KeyOf(i)] = Open
        /\ ~ HadMyWorklog(KeyOf(i))
        /\ tracker[KeyOf(i)].status = Completed) =>
          /\ results[i].status = "success"
          /\ results[i].actions =
                <<"Moved to In Progress", "Logged 2h work", "Moved to Completed">>
          /\ Ops(CallsOn(KeyOf(i))) =
                <<"issue", "transitions", "transition_issue", "issue",
                  "worklogs", "add_worklog", "transitions", "transition_issue">>
          /\ \A c \in Range(CallsOn(KeyOf(i))) : c.ok

C3_Witness ==
    \E i \in Reported :
       /\ AssignedToMe(KeyOf(i))
       /\ status0[KeyOf(i)] = Open
       /\ ~ HadMyWorklog(KeyOf(i))
       /\ tracker[KeyOf(i)].status = Completed
       /\ Len(results[i].actions) = 3

AlreadyLogged == "Work already logged, skipped worklog"
Logged == "Logged 2h work"

\* C4 as stated: for a sub-task of the caller that is In Progress. and carries
\* a worklog of the caller, no add-worklog call is made, and the action list
\* contains "Work already logged, skipped worklog" and not "Logged 2h work".
C4_WorklogNotDuplicated_AsStated ==
    \A i \in Reported :
       (AssignedToMe(KeyOf(i)) /\ status0[KeyOf(i)] = InProgress /\ HadMyWorklog(KeyOf(i))) =>
          /\ "add_worklog" \notin OpsOn(KeyOf(i))
          /\ AlreadyLogged \in Range(results[i].actions)
          /\ Logged \notin Range(results[i].actions)

\* C4, amended: for such a sub-task no add-worklog call is ever made and
\* "Logged 2h work" is never among its actions; "Work already logged, skipped
\* worklog" is among them whenever the tracker answered the list-worklogs call.
C4_WorklogNotDuplicated ==
    /\ \A k \in DOMAIN tracker :
          (AssignedToMe(k) /\ status0[k] = InProgress /\ HadMyWorklog(k)) =>
             "add_worklog" \notin OpsOn(k)
    /\ \A i \in Reported :
          (AssignedToMe(KeyOf(i)) /\ status0[KeyOf(i)] = InProgress /\ HadMyWorklog(KeyOf(i))) =>
             /\ Logged \notin Range(results[i].actions)
             /\ Executed(KeyOf(i), "worklogs") => AlreadyLogged \in Range(results[i].actions)
             /\ ~ Executed(KeyOf(i), "worklogs") => results[i].actions = <<>>

C4_Witness ==
    \E i \in Reported :
       /\ AssignedToMe(KeyOf(i))
       /\ status0[KeyOf(i)] = InProgress
       /\ HadMyWorklog(KeyOf(i))
       /\ results[i].actions = <<AlreadyLogged, "Moved to Completed">>

\* C5: in an invocation that follows another one, a sub-task of the caller that
\* the earlier invocations left in Completed is reported as skipped, "Already
\* Completed", and no transition or worklog call is made on it.
C5_SecondRunSkipsCompleted ==
    prevRan =>
       \A k \in DOMAIN tracker :
          (AssignedToMe(k) /\ status0[k] = Completed) =>
             /\ OpsOn(k) \cap {"transitions", "transition_issue", "worklogs", "add_worklog"} = {}
             /\ tracker[k].status = Completed
             /\ \A i \in Reported :
                   KeyOf(i) = k =>
                      /\ results[i].status = "skipped"
                      /\ results[i].message.format = "Already Completed"

\* An earlier invocation moved an Open sub-task to Completed; this one reports
\* it as skipped.
C5_Witness ==
    /\ prevRan
    /\ \E i \in Reported :
          /\ AssignedToMe(KeyOf(i))
          /\ statusInit[KeyOf(i)] = Open
          /\ status0[KeyOf(i)] = Completed
          /\ results[i].status = "skipped"

Rank(status) ==
    CASE status = Open -> 1
      [] status = InProgress -> 2
      [] status = Completed -> 3
      [] OTHER -> 0

\* C6: at every moment of an invocation each sub-task has the status it had
\* when the invocation started or a later one in Open < In Progress. <
\* Completed; the invocation executes only transitions to In Progress., on an
\* issue it saw as Open, and to Completed, on an issue it saw as In Progress.
C6_StatusNeverRegresses ==
    /\ \A k \in DOMAIN tracker :
          \/ tracker[k].status = status0[k]
          \/ /\ Rank(status0[k]) > 0
             /\ Rank(tracker[k].status) > Rank(status0[k])
    /\ \A c \in Range(calls) :
          c.op = "transition_issue" => TransitionTable[c.id] \in {InProgress, Completed}
    /\ pc = "step1_transition_issue" =>
          current_status = Open /\ TransitionTable[chosen[1]] = InProgress
    /\ pc = "step3_transition_issue" =>
          current_status = InProgress /\ TransitionTable[chosen[1]] = Completed

C6_Witness ==
    \E k, l \in DOMAIN tracker :
       /\ status0[k] = Open
       /\ tracker[k].status = Completed
       /\ status0[l] = InProgress
       /\ tracker[l].status = Completed

LastCall == calls[Len(calls)]

\* C7 as stated: a provider error of any remote call made for a sub-task, the
\* first fetch of the sub-task included, becomes that sub-task's error result
\* and does not leave process_story_subtasks.
C7_ProviderErrorIsolated_AsStated ==
    (/\ calls # <<>>
     /\ LastCall.key # StoryKey
     /\ LastCall.error.kind = "JIRAError") =>
       /\ pc # "raised"
       /\ \E i \in Reported :
             KeyOf(i) = LastCall.key /\ results[i].status = "error"

\* The actions whose remote calls the history shows as completed.
RECURSIVE ActionsCompleted(_, _)
ActionsCompleted(cs, hadMine) ==
    IF cs = <<>> THEN <<>>
    ELSE LET c == Head(cs)
             action ==
                 IF ~ c.ok THEN <<>>
                 ELSE IF c.op = "transition_issue"
                 THEN (IF TransitionTable[c.id] = InProgress
                       THEN <<"Moved to In Progress">> ELSE <<"Moved to Completed">>)
                 ELSE IF c.op = "add_worklog" THEN <<Logged>>
                 ELSE IF c.op = "worklogs" /\ hadMine THEN <<AlreadyLogged>>
                 ELSE <<>>
         IN action \o ActionsCompleted(Tail(cs), hadMine)

\* C8: a sub-task whose processing was interrupted by a provider error is
\* reported with outcome error, message "Error: <provider message>", and
\* exactly the actions completed before the failure; no other sub-task is
\* reported as error.
C8_ErrorKeepsActions ==
    \A i \in Reported :
       LET cs == CallsOn(KeyOf(i))
           last == cs[Len(cs)]
       IN /\ results[i].status = "error" <=> ~ last.ok
          /\ ~ last.ok =>
                /\ last.error.kind = "JIRAError"
                /\ results[i].message = Message("Error: %s", last.error.text)
                /\ results[i].actions = ActionsCompleted(cs, HadMyWorklog(KeyOf(i)))

\* The transition to In Progress. succeeded and a later call was rejected.
C8_Witness ==
    \E i \in Reported :
       /\ results[i].status = "error"
       /\ results[i].actions = <<"Moved to In Progress">>
       /\ tracker[KeyOf(i)].status = InProgress
       /\ "add_worklog" \in OpsOn(KeyOf(i))

\* The call is one of the state machine of _process_single_subtask: anything
\* but the first fetch of the sub-task.
InStateMachine(j) ==
    /\ calls[j].key # StoryKey
    /\ \E h \in 1..(j - 1) : calls[h].key = calls[j].key

\* C9 as stated: whatever the kind of failure of a remote call of a sub-task's
\* state machine, it becomes that sub-task's error result and does not leave
\* process_story_subtasks.
C9_EveryFailureCaught_AsStated ==
    (/\ calls # <<>>
     /\ InStateMachine(Len(calls))
     /\ ~ LastCall.ok) =>
       /\ pc # "raised"
       /\ \E i \in Reported :
             KeyOf(i) = LastCall.key /\ results[i].status = "error"

\* C10: on return, processed counts the success results, skipped counts the
\* skipped and the error results, total is the number of the parent's
\* sub-tasks, and processed + skipped = total.
C10_SummaryCounts ==
    pc = "returned" =>
       /\ summary.processed = Cardinality({i \in Reported : results[i].status = "success"})
       /\ summary.skipped =
             Cardinality({i \in Reported : results[i].status \in {"skipped", "error"}})
       /\ summary.total = Len(parentSubtasks)
       /\ summary.processed + summary.skipped = summary.total

C10_Witness ==
    /\ pc = "returned"
    /\ summary.processed = 1
    /\ summary.skipped = 1
    /\ \E i \in Reported : results[i].status = "error"

\* C11: on return the result list has one entry for each sub-task of the
\* parent, in the order of the parent's sub-task list, and entry i carries the
\* key of sub-task i.
C11_OneResultPerSubtask ==
    pc = "returned" =>
       /\ Len(results) = Len(parentSubtasks)
       /\ \A i \in DOMAIN parentSubtasks : results[i].subtask_key = parentSubtasks[i]

\* Two sub-tasks with different outcomes were reported.
C11_Witness ==
    /\ pc = "returned"
    /\ Len(results) > 1
    /\ results[1].status # results[2].status

\* The tracker answered the listing of transitions for the sub-task, asked
\* for the target status, without a transition to it.
NotOffered(key, target) ==
    \E j \in DOMAIN calls :
       /\ calls[j].key = key
       /\ calls[j].op = "transitions"
       /\ calls[j].ok
       /\ calls[j].want = target
       /\ ~ calls[j].offered

\* C12: a sub-task of the caller that is Open and for which the tracker does
\* not offer the transition to In Progress. stays Open; after the listing no
\* further call is made on it (no worklog listed or added, no transition to
\* Completed looked for), and it is reported as success, "Processed
\* successfully", with no actions.
C12_OpenNotOffered ==
    \A k \in DOMAIN tracker :
       (AssignedToMe(k) /\ status0[k] = Open /\ NotOffered(k, InProgress)) =>
          /\ tracker[k].status = Open
          /\ Ops(CallsOn(k)) = <<"issue", "transitions">>
          /\ \E i \in Reported :
                /\ KeyOf(i) = k
                /\ results[i].status = "success"
                /\ results[i].message = Message("Processed successfully", None)
                /\ results[i].actions = <<>>

C12_Witness ==
    /\ pc = "returned"
    /\ \E k \in DOMAIN tracker :
          /\ AssignedToMe(k)
          /\ status0[k] = Open
          /\ NotOffered(k, InProgress)
          /\ tracker[k].status = Open

\* C13: a sub-task processed in In Progress. for which the tracker does not
\* offer the transition to Completed is reported as success; its worklog step
\* was applied before (the last action is "Logged 2h work" after an add-worklog
\* call, or "Work already logged, skipped worklog" without one), "Moved to
\* Completed" is not among its actions, and it stays In Progress.
C13_CompletedNotOffered ==
    \A k \in DOMAIN tracker :
       NotOffered(k, Completed) =>
          /\ tracker[k].status = InProgress
          /\ \E i \in Reported :
                /\ KeyOf(i) = k
                /\ results[i].status = "success"
                /\ results[i].current_status = InProgress
                /\ "Moved to Completed" \notin Range(results[i].actions)
                /\ results[i].actions # <<>>
                /\ LET last == results[i].actions[Len(results[i].actions)]
                   IN \/ /\ last = Logged
                         /\ Executed(k, "add_worklog")
                         /\ ~ HadMyWorklog(k)
                      \/ /\ last = AlreadyLogged
                         /\ "add_worklog" \notin OpsOn(k)
                         /\ HadMyWorklog(k)

\* Both ways into the worklog step ended without the transition to Completed:
\* a sub-task that was Open and got a worklog, one that was In Progress. and
\* already had one.
C13_Witness ==
    \E k, l \in DOMAIN tracker :
       /\ NotOffered(k, Completed)
       /\ status0[k] = Open
       /\ Executed(k, "add_worklog")
       /\ NotOffered(l, Completed)
       /\ status0[l] = InProgress
       /\ HadMyWorklog(l)

\* ------------------------------------------------------ creation workflow
CreateAttempts == SelectSeq(calls, LAMBDA c : c.op = "create_issue")
AssignsOf(key) == SelectSeq(calls, LAMBDA c : c.op = "assign_issue" /\ c.key = key)

\* The exceptions raised by the create-or-assign sequence of attempt i.
RaisedBy(i) ==
    LET attempt == CreateAttempts[i]
    IN IF ~ attempt.ok THEN {attempt.error}
       ELSE {c.error : c \in {d \in Range(AssignsOf(attempt.key)) : ~ d.ok}}

\* C14: a create invocation that has resolved its preconditions does not raise;
\* when it returns it has made 7 creation attempts, one per template in
\* template order, and its result list has 7 entries in template order; the
\* entry of a template is `error`, with the exception's message, exactly when
\* the creation or the assignment of that template raised; `failed` is the
\* number of those templates, `created` is 7 - `failed`, and `total` is 7.
C14_AllAttempted ==
    /\ (pc = "raised") => CreateAttempts = <<>>
    /\ (pc = "returned") =>
          /\ Len(SUBTASK_TEMPLATES) = 7
          /\ Len(CreateAttempts) = 7
          /\ Len(created) = 7
          /\ \A i \in 1..7 :
                /\ CreateAttempts[i].fields.summary = SUBTASK_TEMPLATES[i]
                /\ created[i].summary = SUBTASK_TEMPLATES[i]
                /\ (created[i].status = "error") = (RaisedBy(i) # {})
                /\ (created[i].status = "success") = (RaisedBy(i) = {})
                /\ \A e \in RaisedBy(i) : created[i].message = Message("%s", Str(e))
          /\ summary_stats.failed = Cardinality({i \in 1..7 : RaisedBy(i) # {}})
          /\ summary_stats.created = 7 - summary_stats.failed
          /\ summary_stats.total = 7

\* Two templates failed, one in its creation and one in its assignment, and
\* a later template succeeded.
C14_Witness ==
    /\ pc = "returned"
    /\ summary_stats.failed = 2
    /\ \E i, j \in 1..6 :
          /\ ~ CreateAttempts[i].ok
          /\ CreateAttempts[j].ok
          /\ RaisedBy(j) # {}
    /\ created[7].status = "success"

IsSubTaskName(name) == name \in {"sub-task", "Sub-task", "SUB-TASK", "Sub-Task"}
Listed == Executed(StoryKey, "issue_types")
Matching == {i \in DOMAIN issue_types : IsSubTaskName(issue_types[i].name)}

\* C15: when the listing of issue types holds no type whose name is
\* "sub-task" in any letter case, create_subtasks raises "Sub-task issue type
\* not found" with no create or assign call made and no results; when it holds
\* one, every creation uses the id of the first such type of the listing.
C15_SubTaskIssueType ==
    Listed =>
       IF Matching = {}
       THEN /\ pc = "raised"
            /\ raised = NotFound
            /\ OpsOn(StoryKey) = {"myself", "issue_types"}
            /\ Len(calls) = 2
            /\ created = <<>>
            /\ summary_stats = NoStats
       ELSE \A i \in DOMAIN CreateAttempts :
               \E m \in Matching :
                  /\ \A l \in Matching : m <= l
                  /\ CreateAttempts[i].fields.issuetype = issue_types[m].id

\* The listing holds a type named "Subtask", which is not a match.
C15_Witness ==
    /\ pc = "raised"
    /\ raised = NotFound
    /\ issue_types = <<StoryType, SubtaskType>>

\* C16: the caller is resolved once, by the first call of the invocation;
\* every assign call follows immediately the successful create call of the
\* issue it assigns, and assigns it to the caller; a create call that failed
\* is not followed by an assign call.
C16_CreateThenAssign ==
    \A j \in DOMAIN calls :
       /\ (calls[j].op = "myself") = (j = 1)
       /\ calls[j].op = "assign_issue" =>
             /\ j > 1
             /\ calls[j - 1].op = "create_issue"
             /\ calls[j - 1].ok
             /\ calls[j - 1].key = calls[j].key
             /\ calls[j].fields.assignee = username
             /\ username = Me.name
       /\ (calls[j].op = "create_issue" /\ j < Len(calls)) =>
             (calls[j + 1].op = "assign_issue") = calls[j].ok

\* A creation failed and the next template was created and assigned.
C16_Witness ==
    \E j \in DOMAIN calls :
       /\ j + 2 \in DOMAIN calls
       /\ calls[j].op = "create_issue"
       /\ ~ calls[j].ok
       /\ calls[j + 1].op = "create_issue"
       /\ calls[j + 2].op = "assign_issue"
       /\ calls[j + 2].ok

\* ------------------------------------------------------- request handlers
Answered(routes) == handler_pc = "responded" /\ request.route \in routes

\* The parent key of the request is a string that is empty after trimming, or
\* holds no '-'.
KeyMalformed == IsStr(request.story_key) /\ ~ HasDash(Strip(request.story_key))

\* The credential of the request is missing, empty, or blank.
NoCredential ==
    \/ request.jira_pat = Missing
    \/ IsStr(request.jira_pat) /\ Strip(request.jira_pat) = ""

\* C17, as stated: a request to either handler whose parent key, trimmed, is
\* empty or holds no '-' is answered with HTTP 400 and success=false, with no
\* JiraClient constructed and no remote call made.
C17_MalformedKeyRejected_AsStated ==
    (Answered({"process", "create"}) /\ KeyMalformed) =>
       /\ response.status = "400"
       /\ response.body.success = FALSE
       /\ client = NoClient
       /\ calls = <<>>

\* C18, as stated: a request to either handler whose credential is missing,
\* empty or blank is answered with HTTP 400 and "Jira PAT is required", with no
\* JiraClient constructed and no remote call made; the credential of a
\* JiraClient is the one of the request, never Config.JIRA_PAT.
C18_CredentialRequired_AsStated ==
    /\ (Answered({"process", "create"}) /\ NoCredential) =>
          /\ response.status = "400"
          /\ response.body.error = Message("Jira PAT is required", <<>>)
          /\ client = NoClient
          /\ calls = <<>>
    /\ client # NoClient => client.token = Strip(request.jira_pat)

\* C19, as stated: when a JIRAError leaves the workflow or the JiraClient
\* constructor, the response has the error's status code as its HTTP status,
\* success=false and the error's text; when any other exception does, the
\* HTTP status is 500.
C19_ProviderErrorStatus_AsStated ==
    (Answered({"process", "create"}) /\ raised # NoException) =>
       /\ response.body.success = FALSE
       /\ IF raised.kind = "JIRAError"
          THEN /\ response.status = raised.status_code
               /\ response.body.error = Message("Jira API Error: %s", <<raised.text>>)
          ELSE response.status = "500"

\* C20: the answer of the health probe is the one it gives under every other
\* configured credential and whatever credential the request carries; it
\* reports jira_pat_configured as false, and no remote call is made.
C20_HealthIndependentOfCredential ==
    Answered({"health"}) =>
       /\ \A configured_pat \in ConfiguredPats :
             response = HealthResponse([Config EXCEPT !.JIRA_PAT = configured_pat])
       /\ response.body.config = [jira_server |-> Config.JIRA_SERVER,
                                  jira_pat_configured |-> FALSE,
                                  custom_field_id |-> Config.CUSTOM_FIELD_ID,
                                  custom_field_value |-> Config.CUSTOM_FIELD_VALUE,
                                  default_estimate |-> Config.DEFAULT_ESTIMATE,
                                  flask_host |-> Config.FLASK_HOST,
                                  flask_port |-> Config.FLASK_PORT,
                                  debug |-> Config.DEBUG]
       /\ response.status = "200"
       /\ client = NoClient
       /\ calls = <<>>

\* The probe answered while a credential was configured and the request
\* carried one.
C20_Witness ==
    /\ Answered({"health"})
    /\ request.JIRA_PAT = "configured-token"
    /\ request.jira_pat = " test-token "

\* The handler has validated the body of the request and nothing else: it has
\* rejected it, or is about to construct the JiraClient.
Validated ==
    /\ handler_pc \in {"client", "responded"}
    /\ request.route \in {"process", "create"}
    /\ calls = <<>>

\* The body of the request.
Data == [story_key |-> request.story_key, jira_pat |-> request.jira_pat]

\* C24: the advance handler and the create handler validate alike: what
\* either does with a request body (reject it with a status and a message,
\* fail on it, or go on to construct the JiraClient) is what the other does
\* with the same body.
C24_SameValidation ==
    /\ Validated =>
          /\ response = ApiProcessTasksValidation(Data)
          /\ response = ApiCreateSubtasksValidation(Data)
          /\ (handler_pc = "client") = (response = NoResponse)
    /\ \A story_key \in StoryKeyInputs, jira_pat \in PatInputs :
          ApiProcessTasksValidation([story_key |-> story_key, jira_pat |-> jira_pat])
             = ApiCreateSubtasksValidation([story_key |-> story_key, jira_pat |-> jira_pat])

\* The create handler rejected a body whose parent key is malformed and whose
\* credential is blank, for its credential.
C24_Witness ==
    /\ Validated
    /\ request.route = "create"
    /\ request.story_key = "invalid"
    /\ request.jira_pat = "   "
    /\ response = Rejected("Jira PAT is required")

\* C28, as stated: a request to either handler whose parent key or credential
\* is present but not a string is answered with HTTP 400, with no JiraClient
\* constructed and no remote call made.
C28_NonStringRejected_AsStated ==
    (Answered({"process", "create"})
        /\ (request.story_key = Null \/ request.jira_pat = Null)) =>
       /\ response.status = "400"
       /\ client = NoClient
       /\ calls = <<>>

\* C23, as stated: every per-item result reports the status the sub-task had
\* when the invocation first fetched it, before any transition the invocation
\* made.
C23_PriorStatusReported_AsStated ==
    \A i \in Reported : results[i].current_status = status0[results[i].subtask_key]

\* C26: a sub-task of the caller whose status is none of Open, In Progress.
\* and Completed gets no transition and no worklog call, keeps its status, and
\* is reported as success, "Processed successfully", with no actions.
C26_UnrecognizedStatusUntouched ==
    /\ \A k \in DOMAIN tracker :
          (AssignedToMe(k) /\ status0[k] \notin {Open, InProgress, Completed}) =>
             /\ OpsOn(k) \subseteq {"issue"}
             /\ tracker[k].status = status0[k]
    /\ \A i \in Reported :
          (AssignedToMe(KeyOf(i))
              /\ status0[KeyOf(i)] \notin {Open, InProgress, Completed}) =>
             /\ results[i].status = "success"
             /\ results[i].message = Message("Processed successfully", None)
             /\ results[i].actions = <<>>
             /\ results[i].current_status = status0[KeyOf(i)]

\* The invocation returned after a sub-task of the caller in "In Progress"
\* (without the period) was reported.
C26_Witness ==
    /\ pc = "returned"
    /\ \E i \in Reported :
          /\ AssignedToMe(KeyOf(i))
          /\ status0[KeyOf(i)] = Unrecognized
          /\ results[i].status = "success"

\* The calls that come before the items: the current user, then the
\* parent's sub-tasks, or the issue types and the parent's project.
IsLookup(c) ==
    \/ c.op \in {"myself", "issue_types"}
    \/ c.op = "issue" /\ c.key = StoryKey

TemplateOf(summary_text) ==
    CHOOSE t \in DOMAIN SUBTASK_TEMPLATES : SUBTASK_TEMPLATES[t] = summary_text

\* The item the i-th call of the invocation is made for: the position of the
\* sub-task, or of the template; 0 for a call that comes before the items.
ItemOf(i) ==
    LET c == calls[i]
    IN IF IsLookup(c) THEN 0
       ELSE IF c.op = "create_issue" THEN TemplateOf(c.fields.summary)
       ELSE IF c.op = "assign_issue"
       THEN TemplateOf(calls[CHOOSE j \in DOMAIN calls :
                                /\ calls[j].op = "create_issue"
                                /\ calls[j].ok
                                /\ calls[j].key = c.key].fields.summary)
       ELSE CHOOSE n \in DOMAIN parentSubtasks : parentSubtasks[n] = c.key

\* The items that have their outcome.
Finished == IF created # <<>> \/ template > 0 THEN Len(created) ELSE Len(results)

\* C27: the remote calls of an invocation of either workflow come one after
\* the other, by item: first the current user, then the sub-tasks of the
\* parent (advance) or the issue types and the project (create); then every
\* call for an item comes after all calls for the items before it, whose
\* outcomes are recorded by then, and no item is passed over.
C27_CallsInItemOrder ==
    /\ \A i \in DOMAIN calls :
          /\ calls[i].ok \in BOOLEAN
          /\ IF i = 1 THEN ItemOf(i) = 0
             ELSE ItemOf(i) \in {ItemOf(i - 1), ItemOf(i - 1) + 1}
          /\ ItemOf(i) > 0 => \A j \in 1..(i - 1) : calls[j].ok \/ ItemOf(j) > 0
    /\ LET lookups == Ops(SelectSeq(calls, IsLookup))
       IN lookups \in {<<>>, <<"myself">>, <<"myself", "issue">>,
                       <<"myself", "issue_types">>, <<"myself", "issue_types", "issue">>}
    /\ calls # <<>> => ItemOf(Len(calls)) \in {Finished, Finished + 1}

\* The advance invocation returned after it moved the first and then the
\* second sub-task.
C27_Witness ==
    /\ pc = "returned"
    /\ Len(results) = 2
    /\ \A i \in Reported :
          /\ results[i].subtask_key = i
          /\ "Moved to Completed" \in Range(results[i].actions)

\* The worklogs an invocation with the history cs added to the sub-task.
AddedIn(cs, key) ==
    Len(SelectSeq(cs, LAMBDA c : c.key = key /\ c.op = "add_worklog" /\ c.ok))

\* Every add-worklog call in the history cs comes right after the answered
\* list-worklogs call of the same invocation on the same sub-task.
ChecksThenActs(cs) ==
    \A i \in DOMAIN cs :
       cs[i].op = "add_worklog" =>
          /\ i > 1
          /\ cs[i - 1].op = "worklogs"
          /\ cs[i - 1].ok
          /\ cs[i - 1].key = cs[i].key

\* C29: the guard against a second worklog is a check followed by a separate
\* act.  Each of two overlapping invocations by the same user adds a worklog
\* to a sub-task only right after its own list-worklogs call, at most once,
\* and only when no worklog of the caller was there before both; the
\* sub-task ends with the caller's earlier worklogs and those two
\* invocations' additions, which may be two.
C29_CheckThenAct ==
    /\ ChecksThenActs(calls)
    /\ ChecksThenActs(other.calls)
    /\ \A k \in DOMAIN tracker :
          /\ AddedIn(calls, k) <= 1
          /\ AddedIn(other.calls, k) <= 1
          /\ AddedIn(calls, k) + AddedIn(other.calls, k) > 0 =>
                WorklogsByMe(k) = AddedIn(calls, k) + AddedIn(other.calls, k)

\* Both invocations have returned; the sub-task was In Progress. with no
\* worklog of the caller, each invocation listed its worklogs and added one,
\* and it now carries two worklogs of the caller.
C29_Witness ==
    /\ pc = "returned"
    /\ other.pc = "returned"
    /\ \E k \in DOMAIN tracker :
          /\ statusInit[k] = InProgress
          /\ AddedIn(calls, k) = 1
          /\ AddedIn(other.calls, k) = 1
          /\ WorklogsByMe(k) = 2
          /\ \E i \in DOMAIN results, j \in DOMAIN other.results :
                /\ results[i].subtask_key = k
                /\ other.results[j].subtask_key = k
                /\ Logged \in Range(results[i].actions)
                /\ Logged \in Range(other.results[j].actions)

\* C30, as stated: in every result of an invocation, also of one that
\* overlaps with another on the same parent, an item reported as skipped has
\* no actions, and the invocation executed no transition and added no
\* worklog on its sub-task.
C30_SkippedHasNoActions_AsStated ==
    \A i \in Reported :
       results[i].status = "skipped" =>
          /\ results[i].actions = <<>>
          /\ ~ Executed(results[i].subtask_key, "transition_issue")
          /\ ~ Executed(results[i].subtask_key, "add_worklog")

\* A method called on its own has returned.
Returned(method) == invoked.method = method /\ invoked.at = "returned"

\* The text starts with http:// or with https://.
HasScheme(text) == \E n \in 0..Len(text) : SubSeq(text, 1, n) \in {Http, Https}

\* C21: Config.validate returns (True, None) exactly when JIRA_SERVER is not
\* empty, starts with http:// or https://, and FLASK_PORT is within
\* 1..65535; otherwise it returns False with the message of the first check
\* that fails, in the order: server missing, server scheme, port range.
C21_ValidateChecksInOrder ==
    Returned("validate") =>
       LET present == Len(invoked.JIRA_SERVER) > 0
           scheme == HasScheme(invoked.JIRA_SERVER)
           port == invoked.FLASK_PORT \in 1..65535
       IN /\ invoked.returned.is_valid = (present /\ scheme /\ port)
          /\ invoked.returned.is_valid = (invoked.returned.error = None)
          /\ ~ present => invoked.returned.error = "JIRA_SERVER is required"
          /\ (present /\ ~ scheme) =>
                invoked.returned.error = "JIRA_SERVER must start with http:// or https://"
          /\ (present /\ scheme /\ ~ port) =>
                invoked.returned.error = "FLASK_PORT must be between 1 and 65535"

\* validate returned on an empty JIRA_SERVER with a port out of range: the
\* server is what it reports.
C21_Witness ==
    /\ Returned("validate")
    /\ invoked.JIRA_SERVER = <<>>
    /\ invoked.FLASK_PORT = 99999
    /\ invoked.returned = [is_valid |-> FALSE, error |-> "JIRA_SERVER is required"]

\* The positions in the listing of the transitions to the requested status.
Offered ==
    {i \in DOMAIN invoked.transitions :
        invoked.transitions[i].to.name = invoked.transition_name}

\* C22: every call of JiraClient.transition_issue begins with listing the
\* transitions of the issue.  When the listing holds a transition to the
\* requested status, the call executes the first such transition and no
\* other, and returns True; when it holds none, the call executes nothing
\* and returns False.
C22_FirstOfferedTransition ==
    /\ invoked.method = "transition_issue" =>
          /\ calls # <<>>
          /\ calls[1].op = "transitions"
          /\ calls[1].key = invoked.key
          /\ \A i \in 2..Len(calls) : calls[i].op = "transition_issue"
          /\ Len(calls) <= 2
    /\ Returned("transition_issue") =>
          IF Offered # {}
          THEN /\ invoked.returned = TRUE
               /\ Len(calls) = 2
               /\ calls[2].ok
               /\ calls[2].key = invoked.key
               /\ \E i \in Offered :
                     /\ \A j \in Offered : i <= j
                     /\ calls[2].id = invoked.transitions[i].id
               /\ tracker[invoked.key].status = invoked.transition_name
          ELSE /\ invoked.returned = FALSE
               /\ Len(calls) = 1
               /\ tracker[invoked.key].status = invoked.status

\* transition_issue returned True after a listing with two transitions to
\* Completed, the one with the greater identifier listed first.
C22_Witness ==
    /\ Returned("transition_issue")
    /\ invoked.returned = TRUE
    /\ invoked.transition_name = Completed
    /\ Cardinality(Offered) = 2
    /\ invoked.transitions[1].id > invoked.transitions[2].id
    /\ calls[2].id = invoked.transitions[1].id

\* The username of the author of a worklog, as _has_worklog_by_user reads it.
AuthorUsername(worklog) ==
    IF worklog.author.name # NoAttr THEN worklog.author.name ELSE worklog.author.key

\* C25: _has_worklog_by_user returns True exactly when a listed worklog has
\* an author whose username is the given one, False when no worklog is
\* listed or all are by other users, and its only remote call is the
\* listing of the worklogs.
C25_HasWorklogByUser ==
    Returned("_has_worklog_by_user") =>
       /\ invoked.returned =
             (\E i \in DOMAIN invoked.worklogs :
                 AuthorUsername(invoked.worklogs[i]) = invoked.username)
       /\ invoked.worklogs = <<>> => invoked.returned = FALSE
       /\ Ops(calls) = <<"worklogs">>
       /\ invoked.worklogs = tracker[invoked.key].worklogs

\* _has_worklog_by_user returned True on a listing whose second worklog is
\* the user's, after one of somebody else.
C25_Witness ==
    /\ Returned("_has_worklog_by_user")
    /\ invoked.returned = TRUE
    /\ Len(invoked.worklogs) = 2
    /\ AuthorUsername(invoked.worklogs[1]) # invoked.username
    /\ AuthorUsername(invoked.worklogs[2]) = invoked.username

\* The worklogs on the sub-task that the workflow added: those of the caller
\* with the 2 hours the workflow logs (the caller's earlier ones are of 3h).
AddedByWorkflow(key) ==
    Len(SelectSeq(tracker[key].worklogs,
                  LAMBDA w : w.author = Me /\ w.timeSpent = "2h"))

\* C31: after any number of invocations, one after the other, by the same
\* user on the same parent, the workflow has added at most one worklog of
\* that user to each sub-task; within one invocation at most one add-worklog
\* call and at most two transition executions are made per sub-task.
C31_AtMostOneWorklogAdded ==
    \A k \in DOMAIN tracker :
       /\ AddedByWorkflow(k) <= 1
       /\ Len(SelectSeq(CallsOn(k), LAMBDA c : c.op = "add_worklog")) <= 1
       /\ Len(SelectSeq(CallsOn(k), LAMBDA c : c.op = "transition_issue")) <= 2

\* A later invocation found the worklog an earlier one had added to a
\* sub-task that stayed In Progress., and added none.
C31_Witness ==
    /\ prevRan
    /\ \E i \in Reported :
          /\ status0[KeyOf(i)] = InProgress
          /\ AddedByWorkflow(KeyOf(i)) = 1
          /\ AddedNow(KeyOf(i)) = 0
          /\ AlreadyLogged \in Range(results[i].actions)
          /\ WorklogsByMe(KeyOf(i)) = 1

\* In the action list, "Moved to Completed" comes right after the action of
\* the worklog step.
AfterWorklogStep(acts) ==
    \A j \in DOMAIN acts :
       acts[j] = "Moved to Completed" =>
          /\ j > 1
          /\ acts[j - 1] \in {Logged, AlreadyLogged}

\* C32: the transition to Completed is never requested for a sub-task before
\* its worklog step has finished: in every action list "Moved to Completed"
\* comes right after "Logged 2h work" or "Work already logged, skipped
\* worklog"; the transitions to Completed are listed only after the answered
\* list-worklogs call, and when one is executed the sub-task carries a
\* worklog of the caller.
C32_WorklogBeforeCompleted ==
    /\ AfterWorklogStep(actions)
    /\ \A i \in Reported : AfterWorklogStep(results[i].actions)
    /\ \A n \in DOMAIN calls :
          (calls[n].op = "transitions" /\ calls[n].ok /\ calls[n].want = Completed) =>
             /\ \E m \in 1..(n - 1) :
                   /\ calls[m].op = "worklogs"
                   /\ calls[m].ok
                   /\ calls[m].key = calls[n].key
             /\ WorklogsByMe(calls[n].key) >= 1
    /\ \A n \in DOMAIN calls :
          (calls[n].op = "transition_issue" /\ TransitionTable[calls[n].id] = Completed) =>
             WorklogsByMe(calls[n].key) >= 1

\* The invocation moved to Completed a sub-task that it had found Open and
\* without a worklog of the caller.
C32_Witness ==
    \E i \in Reported :
       /\ status0[KeyOf(i)] = Open
       /\ results[i].actions = <<"Moved to In Progress", Logged, "Moved to Completed">>
       /\ WorklogsByMe(KeyOf(i)) = 1
       /\ tracker[KeyOf(i)].status = Completed

\* The positions of process_story_subtasks between its first remote call and
\* its end.
AdvancePositions ==
    {"get_subtasks", "loop", "step1_transitions", "step1_transition_issue",
     "step1_get_issue", "step2_worklogs", "step2_add_worklog",
     "step3_transitions", "step3_transition_issue"}

\* No remote call of the invocation failed, and every listing of transitions
\* held one to the status the workflow asked for.
AllGranted ==
    \A n \in DOMAIN calls :
       /\ calls[n].ok
       /\ calls[n].op = "transitions" => calls[n].offered

\* process_story_subtasks has returned, and each sub-task of the caller that
\* was Open or In Progress. when the invocation started is Completed.
AllCompleted ==
    \A k \in DOMAIN tracker :
       (AssignedToMe(k) /\ status0[k] \in {Open, InProgress}) =>
          tracker[k].status = Completed

\* C33: one pass suffices.  When process_story_subtasks returns after an
\* invocation in which no remote call failed and the tracker offered every
\* transition asked for, every sub-task of the caller that was Open or
\* In Progress. at the start is Completed; and an invocation whose remote
\* calls all return comes to its end.
C33_SinglePassSuffices ==
    /\ []((pc = "returned" /\ summary # NoSummary /\ AllGranted) => AllCompleted)
    /\ (pc \in AdvancePositions) ~> (pc \in {"returned", "raised"})

\* The invocation returned after it took an Open and an In Progress. sub-task
\* of the caller to Completed, with no failing call.
C33_Witness ==
    /\ pc = "returned"
    /\ summary # NoSummary
    /\ AllGranted
    /\ \E k, l \in DOMAIN tracker :
          /\ AssignedToMe(k) /\ status0[k] = Open /\ tracker[k].status = Completed
          /\ AssignedToMe(l) /\ status0[l] = InProgress /\ tracker[l].status = Completed

\* C34: no remote call is retried.  Within one invocation of either
\* workflow, a failed call that comes before the items is the last call of
\* the invocation, and after a failed call for an item no further call is
\* made for that item: the next call, if any, is for the next item.
C34_NoRetry ==
    \A i \in DOMAIN calls :
       ~ calls[i].ok =>
          IF ItemOf(i) = 0
          THEN i = Len(calls) /\ pc = "raised"
          ELSE /\ \A j \in (i + 1)..Len(calls) : ItemOf(j) # ItemOf(i)
               /\ i < Len(calls) => ItemOf(i + 1) = ItemOf(i) + 1
               /\ i = Len(calls) => pc \in {"raised", "loop", "create_subtask", "returned"}

\* The create invocation went on with the next template after an assign call
\* failed.
C34_Witness ==
    \E i \in DOMAIN calls :
       /\ ~ calls[i].ok
       /\ calls[i].op = "assign_issue"
       /\ i < Len(calls)
       /\ calls[i + 1].op = "create_issue"
       /\ ItemOf(i + 1) = ItemOf(i) + 1

\* The response is a failure: its HTTP status is not of the 2xx class.
FailureStatus == response.status \notin {"200", "201", "204"}

\* C35, as stated: an advance request that is answered with a failure (any
\* status that is not 2xx) has executed no transition and added no worklog
\* on any sub-task.
C35_FailedAdvanceMutatesNothing_AsStated ==
    (Answered({"process"}) /\ FailureStatus) =>
       \A n \in DOMAIN calls :
          calls[n].op \in {"transition_issue", "add_worklog"} => ~ calls[n].ok

\* The create or assign calls of the request.
CreationCalls == SelectSeq(calls, LAMBDA c : c.op \in {"create_issue", "assign_issue"})

\* C36: a create request that is answered with a failure has made no create
\* and no assign call; a create request that has made one is answered with
\* success and a result that has one entry for each of the 7 templates, in
\* their order, with a summary of 7 in total.
C36_CreateFailsBeforeFirstAttempt ==
    /\ Answered({"create"}) =>
       /\ (response.body.success = FALSE => CreationCalls = <<>>)
       /\ CreationCalls # <<>> =>
             /\ response.status = "200"
             /\ response.body.success = TRUE
             /\ Len(response.body.created) = 7
             /\ \A t \in 1..7 : response.body.created[t].summary = SUBTASK_TEMPLATES[t]
             /\ response.body.summary.total = 7
             /\ response.body.summary.created + response.body.summary.failed = 7
    /\ (handler_pc = "workflow" /\ request.route = "create" /\ pc = "raised") =>
          CreationCalls = <<>>

\* A create request was answered with a result for all templates although a
\* create call and an assign call had failed.
C36_Witness ==
    /\ Answered({"create"})
    /\ response.body.success = TRUE
    /\ \E m, n \in DOMAIN calls :
          /\ calls[m].op = "create_issue" /\ ~ calls[m].ok
          /\ calls[n].op = "assign_issue" /\ ~ calls[n].ok

\* The keys of the issues the create invocation has created at the tracker.
CreatedAtTracker ==
    {calls[n].key : n \in {m \in DOMAIN calls : calls[m].op = "create_issue" /\ calls[m].ok}}

\* C37, as stated: when a create invocation has returned, every issue it
\* created at the tracker has an entry with its key and the outcome success,
\* and the summary's created count is the number of issues created.
C37_CreatedCountIsTrackerCount_AsStated ==
    (pc = "returned" /\ summary_stats # NoStats) =>
       /\ \A key \in CreatedAtTracker :
             \E t \in DOMAIN created :
                created[t].key = key /\ created[t].status = "success"
       /\ summary_stats.created = Cardinality(CreatedAtTracker)

\* The remote calls made by the step.
NewCalls == {calls'[n] : n \in DOMAIN calls' \ DOMAIN calls}

\* C38: in every step, the set of issues that existed before and their
\* assignees stay as they are; a step of an advance request makes no create
\* or assign call, and changes only sub-tasks of the parent assigned to the
\* caller, and of them only the status and the worklogs; a step of a create
\* request executes no transition, adds no worklog, assigns only an issue it
\* has created and changes no issue that existed before.
C38_DisjointEffects ==
    [][/\ DOMAIN tracker' = DOMAIN tracker
       /\ \A key \in DOMAIN tracker :
             /\ tracker'[key].assignee = tracker[key].assignee
             /\ tracker'[key] # tracker[key] =>
                   /\ request.route = "process"
                   /\ key \in Range(parentSubtasks)
                   /\ tracker[key].assignee = Me
       /\ request.route = "process" =>
             \A c \in NewCalls : c.op \notin {"create_issue", "assign_issue"}
       /\ request.route = "create" =>
             \A c \in NewCalls :
                /\ c.op \notin {"transition_issue", "add_worklog"}
                /\ c.op = "assign_issue" => c.key \notin DOMAIN tracker \cup {StoryKey}
       /\ request.route \notin {"process", "create"} => NewCalls = {}]_vars

\* A create request has created an issue under a parent whose sub-task an
\* earlier advance request had taken from Open to Completed, with its worklog.
C38_Witness ==
    /\ Answered({"create"})
    /\ \E n \in DOMAIN calls : calls[n].op = "create_issue" /\ calls[n].ok
    /\ 1 \in DOMAIN tracker
    /\ tracker[1] = [status |-> Completed, assignee |-> Me,
                     worklogs |-> <<Worklog(Me, "2h")>>]

====
